---- MODULE Spec2Model ----
(***************************************************************************)
(* A model of the Amazon product/review monitoring dashboard:              *)
(*   - the in-memory QueueManager (src/services/queue-manager.ts),         *)
(*   - the ProductScraperService / ReviewScraperService task lifecycle and *)
(*     result ingestion into the store (products, reviews tables),         *)
(*   - the ViolationScanner pipeline and the review_violations table.      *)
(* Every await of the source is a separate step: an action fires when the  *)
(* awaited call (provider, store, timer) answers and runs the handler up   *)
(* to its next await.                                                      *)
(***************************************************************************)
EXTENDS Integers, Sequences, FiniteSets, TLC

(***************************************************************************)
(* Bounds of the model                                                     *)
(***************************************************************************)
\* queue items ever created (addToQueue creates two per ASIN)
MaxItems == 2
\* scrape tasks ever started
MaxTasks == 2
\* length of a result set returned by the provider
MaxResults == 2
\* the same, in the specification of the queue
MaxQueueResults == 1
\* length of the list of reviews given to the scanner
MaxReviews == 2
\* number of scans started
MaxScans == 1
\* the same, in the specification of repeated scans
MaxRescans == 2
\* queue items ever created, in the specification of the scheduler
MaxSchedItems == 4
\* length of a result set, in the specification of the aggregates
MaxStatResults == 1
\* length of the violations array of a response
MaxViolations == 1
MaxBatchList == 7
MaxHistResults == 1

(***************************************************************************)
(* Program constants                                                       *)
(***************************************************************************)
maxConcurrent == 3
maxRetries == 3
\* processReviews / processReview
maxAttempts == 3
baseDelay == 1000
\* scanReviews of the batched version
batchSize == 5

Asins == {"A1", "A2"}
ReviewIds == {"R1", "R2"}
Priorities == {0, 1}
\* a missing (undefined / empty) identifier
NoId == ""

VARIABLES
    \* QueueManager
    item,           \* every QueueItem object created so far, by id
    queue,          \* the ids that are keys of the queue Map
    adding,         \* the ASINs of the addToQueue updates in flight
    processing,     \* the processing Set
    pcQ,            \* where processQueue / processItem is suspended
    cur,            \* the item processItem was called with (0: none)
    curTask,        \* the task id startScraping returned to processItem (0: none)
    timers,         \* items with a pending 5 s removal timer
    \* scraper services
    tasks,          \* the tasks Maps of both services, by task id
    productVersion, \* which product-scraper.ts is deployed
    reviewVersion,  \* which review-scraper.ts is deployed
    \* store
    \* ViolationScanner
    scannerVersion, \* which ViolationScanner is deployed
    list,           \* the reviews prop
    scanPc,         \* where scanReviews is suspended
    scans,          \* the number of scans started
    calls,          \* the calls of processReviews / processReview of the scan
    batchNo,        \* the number of the batch being processed
    results,        \* the result records (their reviewIds) being stored
    pos,            \* the position in results of the insert in flight
    found,          \* allViolations: reviewId -> length of the record's violations
    violations,     \* the violations state of the component
    events,         \* the INSERT events not yet delivered to the component
    outcome,        \* the toast scanReviews ended with
    violationRows,  \* the review_violations table
    shouldStop,     \* the shouldStop state of the component
    scanTimeout,    \* the overall timer of the last scan: "none", "armed", "fired"
    products,       \* rows of table products (row id = position)
    reviews,        \* rows of table reviews
    stats,          \* per row of products: rating_data.reviewCount and
                    \* review_summary.verifiedPurchases
    verified,       \* per row of reviews: verified_purchase
    tracked,        \* per row of products: price and best_sellers_rank
    history,        \* rows of table product_history, in the order of insertion
    historyVersion  \* which record_product_history is installed

qvars == <<item, queue, adding, processing, pcQ, cur, curTask, timers>>
svars == <<tasks, productVersion, reviewVersion>>
histvars == <<tracked, history, historyVersion>>
dbvars == <<products, reviews, stats, verified, histvars>>
scanvars == <<scannerVersion, list, scanPc, scans, calls, batchNo, results, pos,
              found, violations, events, outcome, violationRows, shouldStop, scanTimeout>>

(***************************************************************************)
(* Store: products and reviews tables                                      *)
(***************************************************************************)
RowsWithAsin(rows, a) == {i \in DOMAIN rows : rows[i].asin = a}

\* supabase.from('products').update({status}).eq('asin', a)
UpdateStatusByAsin(rows, a, st) ==
    [i \in DOMAIN rows |->
        IF rows[i].asin = a THEN [rows[i] EXCEPT !.status = st] ELSE rows[i]]

\* supabase.from('products').update({status}).eq('id', id)
UpdateStatusById(rows, id, st) ==
    [i \in DOMAIN rows |->
        IF i = id THEN [rows[i] EXCEPT !.status = st] ELSE rows[i]]

\* .select(...).eq('asin', a).single(): the row id, 0 when not exactly one row
SelectSingle(rows, a) ==
    IF Cardinality(RowsWithAsin(rows, a)) = 1
    THEN CHOOSE i \in RowsWithAsin(rows, a) : TRUE
    ELSE 0

\* a mutant: the upsert always inserts
UpsertProductInsertOnly(rows, a, st) ==
    Append(rows, [asin |-> a, status |-> st])

\* supabase.from('products').upsert({asin, ..., status}, {onConflict: 'asin'})
UpsertProduct(rows, a, st) ==
    IF RowsWithAsin(rows, a) # {}
    THEN UpdateStatusByAsin(rows, a, st)
    ELSE Append(rows, [asin |-> a, status |-> st])

RowsWithReview(rows, rid) == {i \in DOMAIN rows : rows[i].review_id = rid}

\* ALTER TABLE reviews ADD CONSTRAINT reviews_review_id_key UNIQUE (review_id)
ReviewIdUnique(rows) ==
    \A i, j \in DOMAIN rows : rows[i].review_id = rows[j].review_id => i = j

\* supabase.from('reviews').upsert({product_id, review_id, ...},
\*                                 {onConflict: 'review_id'})
UpsertReview(rows, rid, pid) ==
    IF RowsWithReview(rows, rid) # {}
    THEN [i \in DOMAIN rows |->
            IF rows[i].review_id = rid
            THEN [rows[i] EXCEPT !.product_id = pid] ELSE rows[i]]
    ELSE Append(rows, [review_id |-> rid, product_id |-> pid])

RECURSIVE InsertMissing(_, _, _)
\* the rows of a batch that meet no row with the same (product_id, review_id)
\* are inserted in order; the others are updated in place
InsertMissing(rows, batch, pid) ==
    IF batch = <<>> THEN rows
    ELSE LET rid == Head(batch)
             hit == \E i \in DOMAIN rows :
                        rows[i].review_id = rid /\ rows[i].product_id = pid
         IN InsertMissing(
                IF hit THEN rows
                ELSE Append(rows, [review_id |-> rid, product_id |-> pid]),
                Tail(batch), pid)

\* supabase.from('reviews').upsert(reviews, {onConflict: 'product_id,review_id'}):
\* one statement; it fails as a whole on a NULL review_id, on a conflict key
\* occurring twice in the batch, and on a violation of reviews_review_id_key
UpsertReviewBatch(rows, batch, pid) ==
    LET ids == [i \in DOMAIN batch |-> batch[i].reviewId]
        twice == \E i, j \in DOMAIN ids : i # j /\ ids[i] = ids[j]
        null == \E i \in DOMAIN ids : ids[i] = NoId
        new == InsertMissing(rows, ids, pid)
    IN IF null \/ twice \/ ~ReviewIdUnique(new)
       THEN [ok |-> FALSE, rows |-> rows]
       ELSE [ok |-> TRUE, rows |-> new]

\* the aggregate columns of a product row no statement has written
NoStats == [reviewCount |-> 0, verifiedPurchases |-> 0]

\* COUNT(*) and COUNT(*) FILTER (WHERE verified_purchase = true) over the
\* reviews of product pid
CountReviews(rows, ver, pid) ==
    [reviewCount |-> Cardinality({j \in DOMAIN rows : rows[j].product_id = pid}),
     verifiedPurchases |->
        Cardinality({j \in DOMAIN rows : rows[j].product_id = pid /\ ver[j]})]

\* the trigger update_product_review_stats, fired for a row of reviews with
\* COALESCE(NEW.product_id, OLD.product_id) = pid, the table being rows / ver
update_product_review_stats(st, rows, ver, pid) ==
    [i \in DOMAIN st |-> IF i = pid THEN CountReviews(rows, ver, pid) ELSE st[i]]

\* the verified_purchase column after UpsertReview(rows, rid, pid) with
\* verified_purchase v
UpsertVerified(rows, ver, rid, v) ==
    IF RowsWithReview(rows, rid) # {}
    THEN [i \in DOMAIN ver |-> IF rows[i].review_id = rid THEN v ELSE ver[i]]
    ELSE Append(ver, v)

\* product.reviewsCount || 0
ReviewsCountOf(o) == IF "reviewsCount" \in DOMAIN o THEN o.reviewsCount ELSE 0

\* product.reviews?.filter(r => r.verified).length || 0
VerifiedCountOf(o) == IF "verifiedReviews" \in DOMAIN o THEN o.verifiedReviews ELSE 0

\* review.isVerified, undefined being stored as not verified
IsVerified(o) == IF "isVerified" \in DOMAIN o THEN o.isVerified ELSE FALSE

RECURSIVE VerifiedAfterBatch(_, _, _, _)
\* the verified_purchase column after InsertMissing for the same batch
VerifiedAfterBatch(rows, ver, batch, pid) ==
    IF batch = <<>> THEN ver
    ELSE LET rid == Head(batch).reviewId
             hits == {i \in DOMAIN rows :
                        rows[i].review_id = rid /\ rows[i].product_id = pid}
         IN VerifiedAfterBatch(
                IF hits # {} THEN rows
                ELSE Append(rows, [review_id |-> rid, product_id |-> pid]),
                IF hits # {}
                THEN [i \in DOMAIN ver |->
                        IF i \in hits THEN IsVerified(Head(batch)) ELSE ver[i]]
                ELSE Append(ver, IsVerified(Head(batch))),
                Tail(batch), pid)

\* the aggregate columns the products upsert of object o writes:
\* product-scraper.ts writes review_summary, the chained version rating_data
\* and review_summary
ProductStats(version, old, o) ==
    IF version = "chained"
    THEN [reviewCount |-> ReviewsCountOf(o), verifiedPurchases |-> 0]
    ELSE [old EXCEPT !.verifiedPurchases = VerifiedCountOf(o)]

\* the aggregate columns after UpsertProduct(rows, o.asin, ...)
UpsertStats(version, rows, st, o) ==
    IF RowsWithAsin(rows, o.asin) # {}
    THEN [i \in DOMAIN st |->
            IF rows[i].asin = o.asin THEN ProductStats(version, st[i], o) ELSE st[i]]
    ELSE Append(st, ProductStats(version, NoStats, o))

\* reviews.filter(r => r.verified).length of a result set
VerifiedIn(res) == Cardinality({i \in DOMAIN res : IsVerified(res[i])})

\* count_product_violations(pid), and the rows the ViolationBadge query counts
ActiveRows(pid) ==
    {i \in DOMAIN violationRows :
        violationRows[i].product_id = pid /\ ~violationRows[i].overridden}

count_product_violations(pid) == Cardinality(ActiveRows(pid))

(***************************************************************************)
(* Store: product_history                                                  *)
(***************************************************************************)
HistoryVersions == {"none", "rank", "violations"}

\* the compared columns of a product row stored from an object without price
\* and without ranks
PlainTracked == [price |-> "null", rank |-> "[]"]

\* the price and the best_sellers_rank the products upsert of object o writes
\* over old: a column whose value is undefined is not in the request and keeps
\* its value; product-scraper.ts sends [] for missing ranks
TrackedOf(version, old, o) ==
    [price |-> IF "price" \in DOMAIN o THEN o.price ELSE old.price,
     rank |-> IF "rank" \in DOMAIN o THEN o.rank
              ELSE IF version = "chained" THEN old.rank ELSE "[]"]

\* the compared columns after UpsertProduct(rows, o.asin, ...)
UpsertTracked(version, rows, tr, o) ==
    IF RowsWithAsin(rows, o.asin) # {}
    THEN [i \in DOMAIN tr |->
            IF rows[i].asin = o.asin THEN TrackedOf(version, tr[i], o) ELSE tr[i]]
    ELSE Append(tr, TrackedOf(version, [price |-> "null", rank |-> "null"], o))

\* the columns of a product row that record_product_history reads
\* (rating_data.rating is not modelled)
HistoryColumns(tr, st) ==
    [price |-> tr.price, reviewCount |-> st.reviewCount, rank |-> tr.rank]

\* the trigger record_product_history, fired AFTER UPDATE of product pid with
\* the columns old and new; vcount is count_product_violations(pid).  "none":
\* the schema before the trigger was created; "rank": the function that
\* compares and stores best_sellers_rank (violation_count keeps its default);
\* "violations": the function that stores the violation count and neither
\* compares nor stores best_sellers_rank
record_product_history(version, hist, pid, old, new, vcount) ==
    CASE version = "rank" ->
            IF old.price # new.price \/ old.reviewCount # new.reviewCount
               \/ old.rank # new.rank
            THEN Append(hist, [product_id |-> pid, price |-> new.price,
                               review_count |-> new.reviewCount,
                               rank |-> new.rank, violation_count |-> 0])
            ELSE hist
      [] version = "violations" ->
            IF old.price # new.price \/ old.reviewCount # new.reviewCount
            THEN Append(hist, [product_id |-> pid, price |-> new.price,
                               review_count |-> new.reviewCount,
                               rank |-> "null", violation_count |-> vcount])
            ELSE hist
      [] OTHER -> hist

\* product_history after a statement that updated row pid of products (0: no
\* row was updated), the columns being oldTr, oldSt before and newTr, newSt
\* after it
HistoryAfter(pid, oldTr, oldSt, newTr, newSt) ==
    IF pid \notin DOMAIN oldTr THEN history
    ELSE record_product_history(historyVersion, history, pid,
                                HistoryColumns(oldTr[pid], oldSt[pid]),
                                HistoryColumns(newTr[pid], newSt[pid]),
                                count_product_violations(pid))

(***************************************************************************)
(* External provider (Apify): the answers it may give                      *)
(***************************************************************************)
ProviderStatuses == {"READY", "RUNNING", "SUCCEEDED", "FAILED"}

SeqsUpTo(S, n) == UNION {[1..m -> S] : m \in 0..n}

ProductObjects == [asin : Asins \cup {NoId}]
ReviewObjects == [reviewId : ReviewIds \cup {NoId}]

\* what GET /actor-runs/{id}/dataset/items may answer: an error, a body that
\* is no array, or an array of at most n objects
Answers(objects, n) ==
    {[kind |-> "throw", items |-> <<>>], [kind |-> "notArray", items |-> <<>>]}
    \cup {[kind |-> "array", items |-> s] : s \in SeqsUpTo(objects, n)}

(***************************************************************************)
(* ProductScraperService / ReviewScraperService                            *)
(***************************************************************************)
ProductVersions == {"flat", "chained"}
ReviewVersions == {"summary", "rows", "batch"}

TaskIds == DOMAIN tasks

\* a mutant: the task is stored as already running
NewTaskProcessing(svc, a) ==
    [svc |-> svc, asin |-> a, status |-> "processing", progress |-> 0, error |-> "none",
     completedAt |-> FALSE, pc |-> "poll", res |-> <<>>, k |-> 0, pid |-> 0,
     fetched |-> "none"]

\* a mutant: the task is stored with the progress of a running task
NewTaskHalfDone(svc, a) ==
    [svc |-> svc, asin |-> a, status |-> "pending", progress |-> 50, error |-> "none",
     completedAt |-> FALSE, pc |-> "poll", res |-> <<>>, k |-> 0, pid |-> 0,
     fetched |-> "none"]

\* startScraping: the task stored under the id the provider returned;
\* monitorTask(taskId) is called at once and awaits the first status poll
NewTask(svc, a) ==
    [svc |-> svc, asin |-> a, status |-> "pending", progress |-> 0, error |-> "none",
     completedAt |-> FALSE, pc |-> "poll", res |-> <<>>, k |-> 0, pid |-> 0,
     fetched |-> "none"]

\* status.progress: the percent the provider reports with a status (one
\* value per status in this model)
ProgressOf(st) ==
    CASE st = "READY" -> 0
      [] st = "SUCCEEDED" -> 100
      [] OTHER -> 50

\* a mutant: a FAILED run is taken for a running one
MapStatusRunning(st) ==
    IF st = "SUCCEEDED" THEN "completed" ELSE "processing"

\* monitorTask: provider status -> task status
MapStatus(st) ==
    IF st = "SUCCEEDED" THEN "completed"
    ELSE IF st = "FAILED" THEN "failed"
    ELSE "processing"

\* error instanceof Error ? error.message : 'Unknown error', for the error
\* object of a store call (message msg); whether the client library returns
\* an instance of Error is not fixed by the program
CaughtMessage(inst, msg) == IF inst THEN msg ELSE "Unknown error"

\* the catch blocks of monitorTask and processResults
Fail(t, msg) ==
    [tasks EXCEPT ![t].status = "failed", ![t].error = msg, ![t].pc = "done",
                  ![t].res = <<>>, ![t].k = 0, ![t].pid = 0]

\* the end of processResults' try block: completedAt, and the status st
Finish(t, st) ==
    [tasks EXCEPT ![t].completedAt = TRUE, ![t].status = st, ![t].pc = "done",
                  ![t].res = <<>>, ![t].k = 0, ![t].pid = 0]

\* the first position after k of a result with an identifier (0: none)
NextWithId(res, k, field) ==
    LET S == {j \in DOMAIN res : j > k /\ res[j][field] # NoId}
    IN IF S = {} THEN 0 ELSE CHOOSE j \in S : \A i \in S : j <= i

\* the first await of processResults, entered from monitorTask
EnterProcessResults(t) ==
    IF tasks[t].svc = "review" /\ reviewVersion \in {"rows", "batch"}
    THEN "product"
    ELSE "results"

\* a status poll answers (apifyService.getTaskStatus)
MonitorPoll(t) ==
    /\ tasks[t].pc = "poll"
    /\ \E st \in ProviderStatuses \cup {"throw"} :
         tasks' =
           IF st = "throw" THEN Fail(t, "Failed to get task status")
           ELSE [tasks EXCEPT
                   ![t].status = MapStatus(st),
                   ![t].progress = ProgressOf(st),
                   ![t].pc = CASE MapStatus(st) = "completed" -> EnterProcessResults(t)
                               [] MapStatus(st) = "processing" -> "wait"
                               [] OTHER -> "done"]
    /\ UNCHANGED <<productVersion, reviewVersion>>

\* setTimeout(() => this.monitorTask(taskId), 5000) fires
MonitorTimer(t) ==
    /\ tasks[t].pc = "wait"
    /\ tasks' = [tasks EXCEPT ![t].pc = "poll"]
    /\ UNCHANGED <<productVersion, reviewVersion>>

(* ProductScraperService.processResults *)

\* product-scraper.ts leaves the status monitorTask set; the chained version
\* sets 'completed' again
ProductDoneStatus(t) ==
    IF productVersion = "chained" THEN "completed" ELSE tasks[t].status

\* the loop goes on to the next product that has an asin, or ends
ProductAdvance(t, res, k) ==
    LET j == NextWithId(res, k, "asin")
    IN IF j = 0 THEN Finish(t, ProductDoneStatus(t))
       ELSE [tasks EXCEPT ![t].res = res, ![t].k = j,
               ![t].pc = IF productVersion = "chained" THEN "existing" ELSE "upsert"]

\* what getResults gave the task: "throw", "notArray", "empty" or "items"
FetchedOf(ans) ==
    IF ans.kind # "array" THEN ans.kind
    ELSE IF ans.items = <<>> THEN "empty" ELSE "items"

\* apifyService.getResults answers
ProductResults(t, answers) ==
    /\ tasks[t].svc = "product" /\ tasks[t].pc = "results"
    /\ \E ans \in answers :
         tasks' =
           [(IF ans.kind = "throw" THEN Fail(t, "Failed to get results")
             ELSE IF ans.kind = "notArray"
                     \/ (productVersion = "chained" /\ ans.items = <<>>)
                  THEN Fail(t, "Invalid results format from Apify")
                  ELSE ProductAdvance(t, ans.items, 0))
            EXCEPT ![t].fetched = FetchedOf(ans)]
    /\ UNCHANGED <<productVersion, reviewVersion, products, reviews, stats, verified, histvars>>

\* chained version: the select of the existing product answers (result unused)
ProductExisting(t) ==
    /\ tasks[t].svc = "product" /\ tasks[t].pc = "existing"
    /\ tasks' = [tasks EXCEPT ![t].pc = "upsert"]
    /\ UNCHANGED <<productVersion, reviewVersion, products, reviews, stats, verified, histvars>>

\* the upsert of product k answers
ProductUpsert(t) ==
    /\ tasks[t].svc = "product" /\ tasks[t].pc = "upsert"
    /\ \E ok, inst \in BOOLEAN :
         IF ok
         THEN /\ products' = UpsertProduct(products, tasks[t].res[tasks[t].k].asin, "active")
              /\ stats' = UpsertStats(productVersion, products, stats, tasks[t].res[tasks[t].k])
              /\ tracked' = UpsertTracked(productVersion, products, tracked,
                                          tasks[t].res[tasks[t].k])
              \* ON CONFLICT DO UPDATE fires the trigger of the existing row
              /\ history' = HistoryAfter(SelectSingle(products, tasks[t].res[tasks[t].k].asin),
                                         tracked, stats, tracked', stats')
              /\ tasks' = IF productVersion = "chained"
                          THEN [tasks EXCEPT ![t].pc = "chain"]
                          ELSE ProductAdvance(t, tasks[t].res, tasks[t].k)
         ELSE /\ products' = products
              /\ stats' = stats
              /\ UNCHANGED <<tracked, history>>
              /\ tasks' = Fail(t, CaughtMessage(inst, "store error"))
    /\ UNCHANGED <<productVersion, reviewVersion, reviews, verified, historyVersion>>

\* chained version: reviewScraperService.startScraping(product.asin) answers;
\* a failure is logged and the loop goes on
ProductChain(t) ==
    /\ tasks[t].svc = "product" /\ tasks[t].pc = "chain"
    /\ \E ok \in BOOLEAN :
         /\ ok => Len(tasks) < MaxTasks
         /\ tasks' =
              IF ok
              THEN Append(ProductAdvance(t, tasks[t].res, tasks[t].k),
                          NewTask("review", tasks[t].res[tasks[t].k].asin))
              ELSE ProductAdvance(t, tasks[t].res, tasks[t].k)
    /\ UNCHANGED <<productVersion, reviewVersion, products, reviews, stats, verified, histvars>>

(* ReviewScraperService.processResults *)

\* rows / batch versions: the select of the product by asin answers
ReviewProduct(t) ==
    /\ tasks[t].svc = "review" /\ tasks[t].pc = "product"
    /\ \E ok \in BOOLEAN :
         LET id == SelectSingle(products, tasks[t].asin)
         IN tasks' = IF ok /\ id # 0
                     THEN [tasks EXCEPT ![t].pid = id, ![t].pc = "results"]
                     ELSE Fail(t, "Product not found")
    /\ UNCHANGED <<productVersion, reviewVersion, products, reviews, stats, verified, histvars>>

\* rows version: the loop goes on to the next review that has a reviewId, or
\* to the update of the product status
ReviewAdvance(t, res, k) ==
    LET j == NextWithId(res, k, "reviewId")
    IN IF j = 0 THEN [tasks EXCEPT ![t].res = <<>>, ![t].k = 0, ![t].pc = "status"]
       ELSE [tasks EXCEPT ![t].res = res, ![t].k = j, ![t].pc = "upsert"]

\* apifyReviewScraper.getResults answers
ReviewResults(t, answers) ==
    /\ tasks[t].svc = "review" /\ tasks[t].pc = "results"
    /\ \E ans \in answers :
         tasks' =
           [(IF ans.kind = "throw" THEN Fail(t, "Failed to get review results")
             ELSE IF ans.kind = "notArray"
                  THEN Fail(t, "Invalid review data format from Apify")
                  ELSE IF reviewVersion \in {"summary", "batch"}
                       THEN [tasks EXCEPT ![t].res = ans.items, ![t].pc = "update"]
                       ELSE ReviewAdvance(t, ans.items, 0))
            EXCEPT ![t].fetched = FetchedOf(ans)]
    /\ UNCHANGED <<productVersion, reviewVersion, products, reviews, stats, verified, histvars>>

\* summary / batch versions: the update of the product's review columns answers
ReviewUpdate(t) ==
    /\ tasks[t].svc = "review" /\ tasks[t].pc = "update"
    /\ \E ok, inst \in BOOLEAN :
         /\ tasks' = IF ~ok THEN Fail(t, CaughtMessage(inst, "store error"))
                     ELSE IF reviewVersion = "batch"
                          THEN [tasks EXCEPT ![t].pc = "upsert"]
                          ELSE Finish(t, "completed")
         \* review_summary is written with verifiedPurchases of the result set:
         \* .eq('asin', task.asin) in review-scraper.ts, .eq('id', product.id)
         \* in the batch version
         /\ stats' = IF ~ok THEN stats
                     ELSE [i \in DOMAIN stats |->
                             IF (reviewVersion = "batch" /\ i = tasks[t].pid)
                                \/ (reviewVersion # "batch" /\ products[i].asin = tasks[t].asin)
                             THEN [stats[i] EXCEPT
                                     !.verifiedPurchases = VerifiedIn(tasks[t].res)]
                             ELSE stats[i]]
    \* record_product_history compares none of the columns written
    /\ UNCHANGED <<productVersion, reviewVersion, products, reviews, verified, histvars>>

\* rows version: the upsert of review k answers (an error is only logged);
\* batch version: the upsert of all reviews answers
ReviewUpsert(t) ==
    /\ tasks[t].svc = "review" /\ tasks[t].pc = "upsert"
    /\ \E ok, inst \in BOOLEAN :
         IF reviewVersion = "batch"
         THEN LET r == UpsertReviewBatch(reviews, tasks[t].res, tasks[t].pid)
              IN IF ok /\ r.ok
                 THEN /\ reviews' = r.rows
                      /\ verified' = VerifiedAfterBatch(reviews, verified, tasks[t].res,
                                                         tasks[t].pid)
                      \* the trigger fires for every row of the batch
                      /\ stats' = IF tasks[t].res = <<>> THEN stats
                                  ELSE update_product_review_stats(stats, reviews', verified',
                                                                   tasks[t].pid)
                      /\ history' = HistoryAfter(tasks[t].pid, tracked, stats, tracked, stats')
                      /\ tasks' = Finish(t, "completed")
                 ELSE /\ UNCHANGED <<reviews, verified, stats, history>>
                      /\ tasks' = Fail(t, CaughtMessage(inst, "store error"))
         ELSE /\ IF ok
                 THEN LET o == tasks[t].res[tasks[t].k]
                      IN /\ reviews' = UpsertReview(reviews, o.reviewId, tasks[t].pid)
                         /\ verified' = UpsertVerified(reviews, verified, o.reviewId,
                                                        IsVerified(o))
                         \* the trigger fires for the row, with NEW.product_id
                         /\ stats' = update_product_review_stats(stats, reviews', verified',
                                                                  tasks[t].pid)
                         \* whose UPDATE of products fires record_product_history
                         /\ history' = HistoryAfter(tasks[t].pid, tracked, stats, tracked, stats')
                 ELSE UNCHANGED <<reviews, verified, stats, history>>
              /\ tasks' = ReviewAdvance(t, tasks[t].res, tasks[t].k)
    /\ UNCHANGED <<productVersion, reviewVersion, products, tracked, historyVersion>>

\* rows version: the update of the product status answers (an error is only
\* logged); the task is marked completed, then the reference to the
\* undeclared `config` throws and the catch block marks it failed
ReviewStatus(t) ==
    /\ tasks[t].svc = "review" /\ tasks[t].pc = "status"
    /\ \E ok \in BOOLEAN :
         products' = IF ok THEN UpdateStatusById(products, tasks[t].pid, "active")
                     ELSE products
    /\ tasks' = [Finish(t, "completed") EXCEPT
                    ![t].status = "failed", ![t].error = "config is not defined"]
    /\ UNCHANGED <<productVersion, reviewVersion, reviews, stats, verified, histvars>>

\* one step of a monitorTask / processResults chain; pa and ra are the
\* answers the provider may give for product and review result sets
ServiceStep(pa, ra) ==
    \/ \E t \in TaskIds : MonitorPoll(t) /\ UNCHANGED <<dbvars, qvars, scanvars>>
    \/ \E t \in TaskIds : MonitorTimer(t) /\ UNCHANGED <<dbvars, qvars, scanvars>>
    \/ \E t \in TaskIds : ProductResults(t, pa) /\ UNCHANGED <<qvars, scanvars>>
    \/ \E t \in TaskIds : ProductExisting(t) /\ UNCHANGED <<qvars, scanvars>>
    \/ \E t \in TaskIds : ProductUpsert(t) /\ UNCHANGED <<qvars, scanvars>>
    \/ \E t \in TaskIds : ProductChain(t) /\ UNCHANGED <<qvars, scanvars>>
    \/ \E t \in TaskIds : ReviewProduct(t) /\ UNCHANGED <<qvars, scanvars>>
    \/ \E t \in TaskIds : ReviewResults(t, ra) /\ UNCHANGED <<qvars, scanvars>>
    \/ \E t \in TaskIds : ReviewUpdate(t) /\ UNCHANGED <<qvars, scanvars>>
    \/ \E t \in TaskIds : ReviewUpsert(t) /\ UNCHANGED <<qvars, scanvars>>
    \/ \E t \in TaskIds : ReviewStatus(t) /\ UNCHANGED <<qvars, scanvars>>

(***************************************************************************)
(* ViolationScanner: violation-scanner.tsx sends the whole list in one      *)
(* request ("single"); the batched version sends one request per review    *)
(***************************************************************************)
ScannerVersions == {"single", "batched"}

\* a review of the list: its review_id, and whether its content is missing,
\* empty or whitespace only
ListObjects == [id : ReviewIds \cup {NoId}, blank : BOOLEAN]

\* the filter of processReviews and the guards of processReview
Valid(r) == r.id # NoId /\ ~r.blank

RECURSIVE ValidIds(_)
\* reviewsData: the ids of the valid reviews, in order
ValidIds(rs) ==
    IF rs = <<>> THEN <<>>
    ELSE (IF Valid(Head(rs)) THEN <<Head(rs).id>> ELSE <<>>) \o ValidIds(Tail(rs))

\* what the classifier may answer to a request: no answer, a status outside
\* 2xx, an empty body, a body that is not JSON, a falsy JSON value, an object
\* with a violations field, an object with a results array, or another object,
\* such as a map keyed by review id.  An array, also an empty one, is truthy
FailureKinds == {"reject", "non2xx", "empty", "unparsable", "falsy"}
\* the lengths a violations array of a response may have
ViolationCounts == 0..MaxViolations

\* an element of a results array
ResultObjects == [reviewId : ReviewIds \cup {NoId}, violations : ViolationCounts]

Responses ==
    [kind : FailureKinds \cup {"map"}, results : {<<>>}, violations : {0}]
    \cup [kind : {"violations"}, results : {<<>>}, violations : ViolationCounts]
    \cup [kind : {"results"}, results : SeqsUpTo(ResultObjects, MaxResults), violations : {0}]

\* the error thrown for a response that fails the attempt: the single
\* version appends the message of the parse error, the batched version does not
ErrorOf(version, kind) ==
    CASE kind = "reject" -> "fetch failed"
      [] kind = "non2xx" -> "HTTP 500"
      [] kind = "empty" -> "Empty response"
      [] version = "batched" -> "Parse error"
      [] kind = "unparsable" -> "Parse error: Unexpected token"
      [] kind = "falsy" -> "Parse error: Invalid response"
      [] kind = "map" -> "Parse error: result is not defined"
      [] OTHER -> "Parse error: reviewsData[0] is undefined"

\* the normalisation of a 2xx response with a body into result records
\* (reviewId, length of violations), for a request that carried the reviews ids; ok is FALSE when
\* the attempt counts as failed
Normalize(version, resp, ids) ==
    CASE resp.kind \in FailureKinds -> [ok |-> FALSE, items |-> <<>>]
      [] resp.kind = "violations" ->
            \* reviewsData[0].id throws on an empty list
            IF ids = <<>> THEN [ok |-> FALSE, items |-> <<>>]
            ELSE [ok |-> TRUE,
                  items |-> <<[reviewId |-> ids[1], violations |-> resp.violations]>>]
      [] resp.kind = "results" ->
            IF version = "single" THEN [ok |-> TRUE, items |-> resp.results]
            ELSE [ok |-> FALSE, items |-> <<>>]
      [] OTHER ->
            \* the third shape refers to the undeclared `result` for every
            \* review of reviewsData
            IF version = "single" /\ ids = <<>> THEN [ok |-> TRUE, items |-> <<>>]
            ELSE [ok |-> FALSE, items |-> <<>>]

\* a call of processReviews / processReview that has sent its first request
NewCall(ids) ==
    [ids |-> ids, pc |-> "fetch", attempts |-> 0, sent |-> 1, waits |-> <<>>,
     lastError |-> "none", got |-> "none", ret |-> "pending", items |-> <<>>,
     aborted |-> FALSE]

\* a call of processReview that returned null without a request
SkippedCall ==
    [ids |-> <<>>, pc |-> "done", attempts |-> 0, sent |-> 0, waits |-> <<>>,
     lastError |-> "none", got |-> "none", ret |-> "null", items |-> <<>>,
     aborted |-> FALSE]

Min(a, b) == IF a < b THEN a ELSE b

\* reviews.slice(i, i + batchSize) for the b-th batch
Batch(b) == SubSeq(list, (b - 1) * batchSize + 1, Min(b * batchSize, Len(list)))
NumBatches == (Len(list) + batchSize - 1) \div batchSize

RECURSIVE CallsOf(_)
\* batch.filter(review => review && review.review_id).map(processReview)
CallsOf(rs) ==
    IF rs = <<>> THEN <<>>
    ELSE (IF Head(rs).id = NoId THEN <<>>
          ELSE IF Head(rs).blank THEN <<SkippedCall>>
          ELSE <<NewCall(<<Head(rs).id>>)>>) \o CallsOf(Tail(rs))

RECURSIVE Returned(_)
\* the non-null results of the calls, in order
Returned(cs) ==
    IF cs = <<>> THEN <<>>
    ELSE (IF Head(cs).ret = "array" THEN Head(cs).items ELSE <<>>) \o Returned(Tail(cs))

\* setViolations(allViolations): records that are not overridden
FreshViolations(ids) ==
    [id \in ids |-> [overridden |-> FALSE, overriddenBy |-> "none"]]

NoOutcome == [title |-> "none", message |-> "none"]

\* the row an insert into review_violations stores: the trigger
\* set_review_violation_details takes product_id from the review
NewRow(id, n) ==
    [review_id |-> id, violations |-> n,
     product_id |-> reviews[CHOOSE i \in RowsWithReview(reviews, id) : TRUE].product_id,
     overridden |-> FALSE, overridden_by |-> "none"]

\* scanReviews ends: its last toast; isScanning is false
EndScan(title, message) ==
    /\ outcome' = [title |-> title, message |-> message]
    /\ scanPc' = "idle"

\* the loop over the result records res, n of them stored: the next record is
\* put into allViolations and its insert sent, or the loop ends; then the
\* single version reports the scan, the batched version sleeps 500 ms
StoreNext(res, n) ==
    IF n < Len(res)
    THEN /\ pos' = n + 1
         /\ found' = [id \in DOMAIN found \cup {res[n + 1].reviewId} |->
                         IF id = res[n + 1].reviewId THEN res[n + 1].violations
                         ELSE found[id]]
         /\ scanPc' = "insert"
         /\ UNCHANGED <<violations, outcome>>
    ELSE /\ pos' = 0
         /\ UNCHANGED found
         /\ IF scannerVersion = "batched"
            THEN scanPc' = "delay" /\ UNCHANGED <<violations, outcome>>
            ELSE IF Len(res) = 0
                 THEN /\ EndScan("Error", "No results returned from violation detection service")
                      /\ UNCHANGED violations
                 ELSE /\ EndScan("Scan Complete", "none")
                      /\ violations' = FreshViolations(DOMAIN found)

\* the Scan button: scanReviews up to its first await (at most limit scans
\* are started, and none while one is running)
StartScan(limit) ==
    /\ scanPc = "idle"
    /\ scans < limit
    /\ scans' = scans + 1
    /\ results' = <<>>
    /\ pos' = 0
    /\ found' = <<>>
    /\ IF scannerVersion = "single"
       THEN IF shouldStop
            \* the value of shouldStop the click handler closed over
            THEN /\ calls' = <<>>
                 /\ batchNo' = 0
                 /\ EndScan("Scan Stopped", "Review scanning was stopped manually")
                 /\ scanTimeout' = "none"
                 /\ UNCHANGED violations
            ELSE /\ calls' = <<NewCall(ValidIds(list))>>
                 /\ batchNo' = 0
                 /\ scanPc' = "calls"
                 /\ outcome' = NoOutcome
                 /\ scanTimeout' = "armed"
                 /\ UNCHANGED violations
       ELSE IF list = <<>>
            THEN /\ calls' = <<>>
                 /\ batchNo' = 0
                 /\ violations' = FreshViolations({})
                 /\ EndScan("Scan Complete", "none")
                 /\ UNCHANGED scanTimeout
            ELSE /\ calls' = CallsOf(Batch(1))
                 /\ batchNo' = 1
                 /\ scanPc' = "calls"
                 /\ outcome' = NoOutcome
                 /\ UNCHANGED <<violations, scanTimeout>>
    /\ shouldStop' = FALSE
    /\ UNCHANGED <<scannerVersion, list, events, violationRows>>

\* the Stop button, rendered while isScanning (the overall timer sets
\* isScanning to false): setShouldStop(true).  The batched version has
\* neither the state nor the button
StopScan ==
    /\ scannerVersion = "single"
    /\ scanPc # "idle"
    /\ scanTimeout # "fired"
    /\ ~shouldStop
    /\ shouldStop' = TRUE
    /\ UNCHANGED <<scannerVersion, list, scanTimeout, scanPc, scans, calls, batchNo, results, pos,
                   found, violations, events, outcome, violationRows>>

\* the catch of the retry loop for a failed attempt of call cl: the attempt
\* is counted; after maxAttempts the error is rethrown and the call returns
\* null, otherwise the call waits baseDelay * 2^(attempts - 1)
FailAttempt(cl, err, kind) ==
    LET a == cl.attempts + 1
    IN IF a = maxAttempts
       THEN [cl EXCEPT !.pc = "done", !.ret = "null", !.attempts = a,
                       !.lastError = err, !.got = kind]
       ELSE [cl EXCEPT !.pc = "backoff", !.attempts = a, !.lastError = err,
                       !.got = kind, !.waits = Append(@, baseDelay * 2^(a - 1))]

\* the classifier answers the request of call c (or the request fails): the
\* call returns its records, or the attempt has failed
CallAnswer(c, resp) ==
    /\ scanPc = "calls"
    /\ calls[c].pc = "fetch"
    /\ ~calls[c].aborted
    /\ LET n == Normalize(scannerVersion, resp, calls[c].ids)
       IN calls' =
            IF n.ok
            THEN [calls EXCEPT ![c].pc = "done", ![c].ret = "array", ![c].items = n.items,
                               ![c].got = resp.kind]
            ELSE [calls EXCEPT ![c] = FailAttempt(@, ErrorOf(scannerVersion, resp.kind),
                                                  resp.kind)]
    /\ UNCHANGED <<scannerVersion, list, shouldStop, scanTimeout, scanPc, scans, batchNo, results, pos, found,
                   violations, events, outcome, violationRows>>

\* single version: the overall timer set by scanReviews fires after
\* SCAN_TIMEOUT: isScanning becomes false and the toast 'Scan Timeout' is
\* shown; scanReviews itself goes on.  Only the 'stopped' return and the next
\* scan clear the timer, so it also fires after the scan has ended
ScanTimeout ==
    /\ scanTimeout = "armed"
    /\ scanTimeout' = "fired"
    /\ UNCHANGED <<scannerVersion, list, shouldStop, scanPc, scans, calls, batchNo, results,
                   pos, found, violations, events, outcome, violationRows>>

\* single version: the timer of processReviews, set right after the overall
\* timer with the same delay and never cleared, calls controller.abort(); a
\* pending fetch rejects with an AbortError, which the retry loop catches
AbortTimeout(c) ==
    /\ scannerVersion = "single"
    /\ scanTimeout = "fired"
    /\ ~calls[c].aborted
    /\ calls' = [calls EXCEPT ![c] =
                    IF @.pc = "fetch"
                    THEN [FailAttempt(@, "AbortError", "abort") EXCEPT !.aborted = TRUE]
                    ELSE [@ EXCEPT !.aborted = TRUE]]
    /\ UNCHANGED <<scannerVersion, list, shouldStop, scanTimeout, scanPc, scans, batchNo, results, pos, found,
                   violations, events, outcome, violationRows>>

\* a fetch with the aborted signal rejects with an AbortError at once
AbortedFetch(c) ==
    /\ scanPc = "calls"
    /\ calls[c].pc = "fetch"
    /\ calls[c].aborted
    /\ calls' = [calls EXCEPT ![c] = FailAttempt(@, "AbortError", "abort")]
    /\ UNCHANGED <<scannerVersion, list, shouldStop, scanTimeout, scanPc, scans, batchNo, results, pos, found,
                   violations, events, outcome, violationRows>>

\* the backoff timer of call c fires: the next request is sent
CallBackoff(c) ==
    /\ scanPc = "calls"
    /\ calls[c].pc = "backoff"
    /\ calls' = [calls EXCEPT ![c].pc = "fetch", ![c].sent = @ + 1]
    /\ UNCHANGED <<scannerVersion, list, shouldStop, scanTimeout, scanPc, scans, batchNo, results, pos, found,
                   violations, events, outcome, violationRows>>

\* as AwaitCalls, but returning as soon as one call has returned
AwaitCallsRace ==
    /\ scanPc = "calls"
    /\ \E c \in DOMAIN calls : calls[c].pc = "done"
    /\ IF scannerVersion = "single" /\ calls[1].ret = "null"
       THEN /\ EndScan("Error", "Invalid response format from violation detection service")
            /\ UNCHANGED <<results, pos, found, violations>>
       ELSE /\ results' = Returned(calls)
            /\ StoreNext(results', 0)
    /\ UNCHANGED <<scannerVersion, list, shouldStop, scanTimeout, scans, calls, batchNo, events, violationRows>>

\* await processReviews(reviews) / await Promise.all(...) returns
AwaitCalls ==
    /\ scanPc = "calls"
    /\ \A c \in DOMAIN calls : calls[c].pc = "done"
    /\ IF scannerVersion = "single" /\ calls[1].ret = "null"
       THEN /\ EndScan("Error", "Invalid response format from violation detection service")
            /\ UNCHANGED <<results, pos, found, violations>>
       ELSE /\ results' = Returned(calls)
            /\ StoreNext(results', 0)
    /\ UNCHANGED <<scannerVersion, list, shouldStop, scanTimeout, scans, calls, batchNo, events, violationRows>>

\* the insert of record pos answers; an error is ignored.  The row needs a
\* review_id (NOT NULL) of a review (review_violations_review_id_fkey); the
\* single version reads reviews[0].product_id, which throws on an empty list
InsertAnswer ==
    /\ scanPc = "insert"
    /\ \E ok \in BOOLEAN :
         LET id == results[pos].reviewId
             stored == /\ ok
                       /\ id # NoId
                       /\ RowsWithReview(reviews, id) # {}
                       /\ list # <<>>
         IN /\ violationRows' = IF stored THEN Append(violationRows, NewRow(id, results[pos].violations))
                                ELSE violationRows
            /\ events' = IF stored /\ scannerVersion = "single" THEN events \cup {id}
                         ELSE events
    /\ StoreNext(results, pos)
    /\ UNCHANGED <<scannerVersion, list, shouldStop, scanTimeout, scans, calls, batchNo, results>>

\* batched version: the 500 ms sleep after a batch ends; the next batch is
\* started or the scan is reported
BatchDelay ==
    /\ scanPc = "delay"
    /\ IF batchNo < NumBatches
       THEN /\ calls' = CallsOf(Batch(batchNo + 1))
            /\ batchNo' = batchNo + 1
            /\ scanPc' = "calls"
            /\ UNCHANGED <<violations, outcome>>
       ELSE /\ violations' = FreshViolations(DOMAIN found)
            /\ EndScan("Scan Complete", "none")
            /\ UNCHANGED <<calls, batchNo>>
    /\ UNCHANGED <<scannerVersion, list, shouldStop, scanTimeout, scans, results, pos, found, events, violationRows>>

\* single version: the subscription delivers the INSERT of a row of review id
RealtimeInsert(id) ==
    /\ id \in events
    /\ events' = events \ {id}
    /\ violations' = [x \in DOMAIN violations \cup {id} |->
                        IF x = id THEN [overridden |-> FALSE, overriddenBy |-> "none"]
                        ELSE violations[x]]
    /\ UNCHANGED <<scannerVersion, list, shouldStop, scanTimeout, scanPc, scans, calls, batchNo, results, pos,
                   found, outcome, violationRows>>

\* the Override button of the violation shown for review id
Override(id) ==
    /\ id \in DOMAIN violations
    /\ ~violations[id].overridden
    /\ violations' = [violations EXCEPT ![id] = [overridden |-> TRUE, overriddenBy |-> "Admin"]]
    /\ UNCHANGED <<scannerVersion, list, shouldStop, scanTimeout, scanPc, scans, calls, batchNo, results, pos,
                   found, events, outcome, violationRows>>

\* stats.violationsFound of a scan: Object.keys(allViolations).length
violationsFound == Cardinality(DOMAIN found)

\* one step of the scanner; responses are the answers the classifier may give
ScanStep(limit, responses) ==
    \/ StartScan(limit) /\ UNCHANGED <<qvars, svars, dbvars>>
    \/ StopScan /\ UNCHANGED <<qvars, svars, dbvars>>
    \/ \E c \in DOMAIN calls, resp \in responses :
          CallAnswer(c, resp) /\ UNCHANGED <<qvars, svars, dbvars>>
    \/ \E c \in DOMAIN calls : CallBackoff(c) /\ UNCHANGED <<qvars, svars, dbvars>>
    \/ AwaitCalls /\ UNCHANGED <<qvars, svars, dbvars>>
    \/ InsertAnswer /\ UNCHANGED <<qvars, svars, dbvars>>
    \/ BatchDelay /\ UNCHANGED <<qvars, svars, dbvars>>
    \/ \E id \in ReviewIds : RealtimeInsert(id) /\ UNCHANGED <<qvars, svars, dbvars>>
    \/ \E id \in ReviewIds \cup {NoId} : Override(id) /\ UNCHANGED <<qvars, svars, dbvars>>

\* the 15-minute timers of the single version
TimerStep ==
    \/ ScanTimeout /\ UNCHANGED <<qvars, svars, dbvars>>
    \/ \E c \in DOMAIN calls : AbortTimeout(c) /\ UNCHANGED <<qvars, svars, dbvars>>
    \/ \E c \in DOMAIN calls : AbortedFetch(c) /\ UNCHANGED <<qvars, svars, dbvars>>

\* no scanner is mounted
ScanIdle ==
    /\ scannerVersion = "single"
    /\ list = <<>>
    /\ scanPc = "idle"
    /\ scans = 0
    /\ calls = <<>>
    /\ batchNo = 0
    /\ results = <<>>
    /\ pos = 0
    /\ found = <<>>
    /\ violations = FreshViolations({})
    /\ events = {}
    /\ outcome = NoOutcome
    /\ violationRows = <<>>
    /\ shouldStop = FALSE
    /\ scanTimeout = "none"

(***************************************************************************)
(* QueueManager                                                            *)
(***************************************************************************)
ItemIds == DOMAIN item

\* the QueueItem addToQueue creates; queuedAt is the time of the call
NewItem(kind, a, p, now) ==
    [kind |-> kind, asin |-> a, priority |-> p, status |-> "queued",
     error |-> FALSE, attempts |-> 0, queuedAt |-> now]

\* a mutant: the comparator ignores the priority
BeforeFifo(a, b) ==
    \/ item[a].queuedAt < item[b].queuedAt
    \/ item[a].queuedAt = item[b].queuedAt /\ a < b

\* the comparator of getQueueItems; Array.prototype.sort is stable and the Map
\* iterates in insertion order, which is the order of the ids
Before(a, b) ==
    \/ item[a].priority > item[b].priority
    \/ /\ item[a].priority = item[b].priority
       /\ \/ item[a].queuedAt < item[b].queuedAt
          \/ item[a].queuedAt = item[b].queuedAt /\ a < b

RECURSIVE SortedItems(_)
SortedItems(S) ==
    IF S = {} THEN <<>>
    ELSE LET m == CHOOSE x \in S : \A y \in S \ {x} : Before(x, y)
         IN <<m>> \o SortedItems(S \ {m})

getQueueItems == SortedItems(queue)

\* the predicate of processQueue's find
Eligible(i) ==
    /\ item[i].status = "queued"
    /\ i \notin processing
    /\ item[i].attempts < maxRetries

\* items.find(...): the first eligible item of the sorted list (0: none)
NextItem ==
    LET items == getQueueItems
        S == {n \in DOMAIN items : Eligible(items[n])}
    IN IF S = {} THEN 0
       ELSE items[CHOOSE n \in S : \A m \in S : n <= m]

\* addToQueue([a], p) up to its await: a product item and a review item are
\* put in the Map and the update of the product's status is sent (at most
\* limit items are ever created)
AddToQueue(a, p, limit) ==
    /\ Len(item) + 2 <= limit
    /\ LET n == Len(item)
       IN /\ item' = item \o <<NewItem("product", a, p, n), NewItem("review", a, p, n)>>
          /\ queue' = queue \cup {n + 1, n + 2}
    /\ adding' = Append(adding, a)
    /\ UNCHANGED <<processing, pcQ, cur, curTask, timers, svars, dbvars>>

\* the update of addToQueue answers: the product's status is 'queued' in the
\* store, or the update failed and the error is ignored
MarkQueued(n) ==
    /\ n \in DOMAIN adding
    /\ \E ok \in BOOLEAN :
         products' = IF ok THEN UpdateStatusByAsin(products, adding[n], "queued")
                     ELSE products
    /\ adding' = [m \in 1..(Len(adding) - 1) |-> IF m < n THEN adding[m] ELSE adding[m + 1]]
    /\ UNCHANGED <<item, queue, processing, pcQ, cur, curTask, timers, svars, reviews, stats, verified, histvars>>

\* the 1 s timer of processQueue fires and one iteration of its loop runs up
\* to the next await: the start of processItem(nextItem), or the next sleep
Tick ==
    /\ pcQ = "sleep"
    /\ IF Cardinality(processing) < maxConcurrent /\ NextItem # 0
       THEN /\ processing' = processing \cup {NextItem}
            /\ item' = [item EXCEPT ![NextItem].status = "processing",
                                    ![NextItem].attempts = @ + 1]
            /\ cur' = NextItem
            /\ pcQ' = "refresh"
       ELSE UNCHANGED <<processing, item, cur, pcQ>>
    /\ UNCHANGED <<queue, adding, curTask, timers, svars, dbvars>>

\* processItem: the update to 'refreshing' answers; startScraping is called
MarkRefreshing ==
    /\ pcQ = "refresh"
    /\ \E ok \in BOOLEAN :
         products' = IF ok THEN UpdateStatusByAsin(products, item[cur].asin, "refreshing")
                     ELSE products
    /\ pcQ' = "start"
    /\ UNCHANGED <<item, queue, adding, processing, cur, curTask, timers, svars, reviews, stats, verified, histvars>>

\* a mutant: the error leaves processItem and ends processQueue
FinallyRethrow(items) ==
    /\ processing' = processing \ {cur}
    /\ timers' = IF items[cur].status = "completed" THEN timers \cup {cur} ELSE timers
    /\ cur' = 0
    /\ curTask' = 0
    /\ pcQ' = IF items[cur].status = "failed" THEN "stopped" ELSE "sleep"

\* the finally block of processItem, then processQueue's 1 s sleep
Finally(items) ==
    /\ processing' = processing \ {cur}
    /\ timers' = IF items[cur].status = "completed" THEN timers \cup {cur} ELSE timers
    /\ cur' = 0
    /\ curTask' = 0
    /\ pcQ' = "sleep"

\* a mutant: the catch block does not mark the item failed
CatchKeepStatus(i) ==
    [item EXCEPT ![i].error = TRUE]

\* the catch block of processItem
Catch(i) ==
    [item EXCEPT ![i].status = "failed", ![i].error = TRUE]

\* processItem: startScraping answers: the task is stored and the polling
\* loop entered, or it throws and the catch block runs
StartScraping ==
    /\ pcQ = "start"
    /\ \E ok \in BOOLEAN :
         IF ok
         THEN /\ Len(tasks) < MaxTasks
              /\ tasks' = Append(tasks, NewTask(item[cur].kind, item[cur].asin))
              /\ curTask' = Len(tasks) + 1
              /\ pcQ' = "poll"
              /\ UNCHANGED item
         ELSE /\ item' = Catch(cur)
              /\ pcQ' = "reset"
              /\ UNCHANGED <<tasks, curTask>>
    /\ UNCHANGED <<queue, adding, processing, cur, timers, productVersion, reviewVersion, dbvars>>

\* processItem's polling loop: the select of the product status answers,
\* with the row (ok) or with an error
PollAnswer(ok) ==
    /\ pcQ = "poll"
    /\ LET id == SelectSingle(products, item[cur].asin)
           active == ok /\ id # 0 /\ products[id].status = "active"
       IN IF active
          THEN /\ item' = [item EXCEPT ![cur].status = "completed"]
               /\ Finally(item')
          ELSE /\ pcQ' = "backoff"
               /\ UNCHANGED <<item, processing, timers, cur, curTask>>
    /\ UNCHANGED <<queue, adding, svars, dbvars>>

PollStatus == \E ok \in BOOLEAN : PollAnswer(ok)

\* the 2 s timer of the polling loop fires; the loop condition is tested
PollTimer ==
    /\ pcQ = "backoff"
    /\ IF item[cur].status = "processing"
       THEN pcQ' = "poll" /\ UNCHANGED <<processing, timers, cur, curTask>>
       ELSE Finally(item)
    /\ UNCHANGED <<item, queue, adding, svars, dbvars>>

\* the catch block's reset of the product status answers; finally runs
ResetStatus ==
    /\ pcQ = "reset"
    /\ \E ok \in BOOLEAN :
         products' = IF ok THEN UpdateStatusByAsin(products, item[cur].asin, "active")
                     ELSE products
    /\ Finally(item)
    /\ UNCHANGED <<item, queue, adding, svars, reviews, stats, verified, histvars>>

\* the 5 s timer set for a completed item fires
RemoveCompleted(i) ==
    /\ i \in timers
    /\ queue' = queue \ {i}
    /\ timers' = timers \ {i}
    /\ UNCHANGED <<item, adding, processing, pcQ, cur, curTask, svars, dbvars>>

\* a mutant: clearCompleted removes the failed items as well
ClearFinished ==
    /\ queue' = {i \in queue : item[i].status \notin {"completed", "failed"}}
    /\ UNCHANGED <<item, adding, processing, pcQ, cur, curTask, timers, svars, dbvars>>

ClearCompleted ==
    /\ queue' = {i \in queue : item[i].status # "completed"}
    /\ UNCHANGED <<item, adding, processing, pcQ, cur, curTask, timers, svars, dbvars>>

ClearFailed ==
    /\ queue' = {i \in queue : item[i].status # "failed"}
    /\ UNCHANGED <<item, adding, processing, pcQ, cur, curTask, timers, svars, dbvars>>

\* a mutant: retryFailed re-queues whatever the attempts counter says
RetryAnyAttempts(i) ==
    item[i].status = "failed"

\* the condition of retryFailed
Retryable(i) ==
    item[i].status = "failed" /\ item[i].attempts < maxRetries

\* a mutant: retryFailed gives the item a fresh attempts counter
RequeueResetAttempts(i) ==
    [item[i] EXCEPT !.status = "queued", !.error = FALSE, !.attempts = 0]

\* what retryFailed does to an item it re-queues
Requeue(i) ==
    [item[i] EXCEPT !.status = "queued", !.error = FALSE]

RetryFailed ==
    /\ item' = [i \in ItemIds |->
                  IF i \in queue /\ Retryable(i) THEN Requeue(i) ELSE item[i]]
    /\ UNCHANGED <<queue, adding, processing, pcQ, cur, curTask, timers, svars, dbvars>>

QueueStep(asins, priorities, limit) ==
    \/ \E a \in asins, p \in priorities : AddToQueue(a, p, limit) /\ UNCHANGED scanvars
    \/ \E n \in DOMAIN adding : MarkQueued(n) /\ UNCHANGED scanvars
    \/ Tick /\ UNCHANGED scanvars
    \/ MarkRefreshing /\ UNCHANGED scanvars
    \/ StartScraping /\ UNCHANGED scanvars
    \/ PollStatus /\ UNCHANGED scanvars
    \/ PollTimer /\ UNCHANGED scanvars
    \/ ResetStatus /\ UNCHANGED scanvars
    \/ \E i \in ItemIds : RemoveCompleted(i) /\ UNCHANGED scanvars
    \/ ClearCompleted /\ UNCHANGED scanvars
    \/ ClearFailed /\ UNCHANGED scanvars
    \/ RetryFailed /\ UNCHANGED scanvars

\* the ASINs enqueued and the result sets the provider returns in this
\* specification
QueueAsins == {"A1"}
QueuePriorities == {0}
\* the versions of product-scraper.ts and review-scraper.ts deployed together
QueueDeployments == {<<"flat", "summary">>, <<"chained", "rows">>, <<"flat", "batch">>}
QueueProductAnswers == Answers([asin : QueueAsins \cup {NoId}], MaxQueueResults)
QueueReviewAnswers == Answers([reviewId : {"R1", NoId}], MaxQueueResults)

\* the state after the module is loaded: the constructor has run processQueue
\* up to its first sleep; the store holds product A1
InitQueue ==
    /\ item = <<>>
    /\ queue = {}
    /\ adding = <<>>
    /\ processing = {}
    /\ pcQ = "sleep"
    /\ cur = 0
    /\ curTask = 0
    /\ timers = {}
    /\ tasks = <<>>
    /\ \E d \in QueueDeployments : productVersion = d[1] /\ reviewVersion = d[2]
    /\ products = <<[asin |-> "A1", status |-> "active"]>>
    /\ reviews = <<>>
    /\ stats = <<NoStats>>
    /\ verified = <<>>
    /\ tracked = [i \in DOMAIN products |-> PlainTracked]
    /\ history = <<>>
    /\ historyVersion = "none"
    /\ ScanIdle

vars == <<item, queue, adding, processing, pcQ, cur, curTask, timers,
          tasks, productVersion, reviewVersion, products, reviews, stats, verified,
          tracked, history, historyVersion,
          scannerVersion, list, scanPc, scans, calls, batchNo, results, pos,
          found, violations, events, outcome, violationRows, shouldStop, scanTimeout>>

NextQueue ==
    \/ QueueStep(QueueAsins, QueuePriorities, MaxItems)
    \/ ServiceStep(QueueProductAnswers, QueueReviewAnswers)

SpecQueue == InitQueue /\ [][NextQueue]_vars

(***************************************************************************)
(* The queue alone, with items of both priorities; no task makes progress, *)
(* an item completes when the status of its product was left 'active'      *)
(***************************************************************************)
InitSched ==
    /\ InitQueue
    /\ productVersion = "flat" /\ reviewVersion = "summary"

NextSched == QueueStep(QueueAsins, Priorities, MaxSchedItems)

SpecSched == InitSched /\ [][NextSched]_vars

(***************************************************************************)
(* The scraper services called directly                                    *)
(***************************************************************************)
\* startScraping([a]) of a service called by a page (the refresh button of
\* the product page): the provider has started the run and the task is stored
StartDirect(svc, a) ==
    /\ Len(tasks) < MaxTasks
    /\ tasks' = Append(tasks, NewTask(svc, a))
    /\ UNCHANGED <<qvars, productVersion, reviewVersion, dbvars, scanvars>>

\* no queue; the store is empty or holds product A1
InitIngest ==
    /\ item = <<>>
    /\ queue = {}
    /\ adding = <<>>
    /\ processing = {}
    /\ pcQ = "sleep"
    /\ cur = 0
    /\ curTask = 0
    /\ timers = {}
    /\ tasks = <<>>
    /\ productVersion \in ProductVersions
    /\ reviewVersion \in ReviewVersions
    /\ products \in {<<>>, <<[asin |-> "A1", status |-> "active"]>>}
    /\ reviews = <<>>
    /\ stats = [i \in DOMAIN products |-> NoStats]
    /\ verified = <<>>
    /\ tracked = [i \in DOMAIN products |-> PlainTracked]
    /\ history = <<>>
    /\ historyVersion = "none"
    /\ ScanIdle

NextIngest ==
    \/ \E svc \in {"product", "review"}, a \in Asins : StartDirect(svc, a)
    \/ ServiceStep(Answers(ProductObjects, MaxResults), Answers(ReviewObjects, MaxResults))

SpecIngest == InitIngest /\ [][NextIngest]_vars

(***************************************************************************)
(* The services called directly on a store with products A1 and A2, the    *)
(* scraped objects carrying review counts and verified flags; rows of      *)
(* reviews are also deleted                                                *)
(***************************************************************************)
StatProductObjects == [asin : Asins, reviewsCount : 0..1, verifiedReviews : 0..1]
StatReviewObjects == [reviewId : ReviewIds, isVerified : BOOLEAN]

RemoveAt(seq, i) == [j \in 1..(Len(seq) - 1) |-> IF j < i THEN seq[j] ELSE seq[j + 1]]

\* DELETE of row i of reviews; the trigger fires with OLD.product_id
DeleteReview(i) ==
    /\ reviews' = RemoveAt(reviews, i)
    /\ verified' = RemoveAt(verified, i)
    /\ stats' = update_product_review_stats(stats, reviews', verified', reviews[i].product_id)
    /\ history' = HistoryAfter(reviews[i].product_id, tracked, stats, tracked, stats')
    /\ UNCHANGED <<products, tracked, historyVersion, qvars, svars, scanvars>>

InitStats ==
    /\ item = <<>>
    /\ queue = {}
    /\ adding = <<>>
    /\ processing = {}
    /\ pcQ = "sleep"
    /\ cur = 0
    /\ curTask = 0
    /\ timers = {}
    /\ tasks = <<>>
    /\ productVersion \in ProductVersions
    /\ reviewVersion \in ReviewVersions
    /\ products = <<[asin |-> "A1", status |-> "active"], [asin |-> "A2", status |-> "active"]>>
    /\ reviews = <<>>
    /\ stats = <<NoStats, NoStats>>
    /\ verified = <<>>
    /\ tracked = [i \in DOMAIN products |-> PlainTracked]
    /\ history = <<>>
    /\ historyVersion = "none"
    /\ ScanIdle

NextStats ==
    \/ \E svc \in {"product", "review"}, a \in Asins : StartDirect(svc, a)
    \/ ServiceStep(Answers(StatProductObjects, MaxStatResults),
                   Answers(StatReviewObjects, MaxStatResults))
    \/ \E i \in DOMAIN reviews : DeleteReview(i)

SpecStats == InitStats /\ [][NextStats]_vars

(***************************************************************************)
(* The services called directly on a store with product A1, its review R1  *)
(* and possibly a violation of R1, with record_product_history installed;  *)
(* the scraped products carry a price, ranks and a review count            *)
(***************************************************************************)
HistProductObjects ==
    [asin : {"A1"}, price : {"9.99", "19.99"}, rank : {"[]", "#1"}, reviewsCount : 0..1]

InitHistory ==
    /\ item = <<>>
    /\ queue = {}
    /\ adding = <<>>
    /\ processing = {}
    /\ pcQ = "sleep"
    /\ cur = 0
    /\ curTask = 0
    /\ timers = {}
    /\ tasks = <<>>
    /\ productVersion \in ProductVersions
    /\ reviewVersion \in ReviewVersions
    /\ products = <<[asin |-> "A1", status |-> "active"]>>
    /\ reviews = <<[review_id |-> "R1", product_id |-> 1]>>
    /\ stats = <<[reviewCount |-> 1, verifiedPurchases |-> 0]>>
    /\ verified = <<FALSE>>
    /\ tracked = <<PlainTracked>>
    /\ history = <<>>
    /\ historyVersion \in HistoryVersions \ {"none"}
    \* the scanner is not on the page; an earlier scan may have stored a row
    /\ scannerVersion = "single"
    /\ list = <<>>
    /\ scanPc = "idle"
    /\ scans = 0
    /\ calls = <<>>
    /\ batchNo = 0
    /\ results = <<>>
    /\ pos = 0
    /\ found = <<>>
    /\ violations = FreshViolations({})
    /\ events = {}
    /\ outcome = NoOutcome
    /\ violationRows \in {<<>>, <<[review_id |-> "R1", violations |-> 1, product_id |-> 1,
                                   overridden |-> FALSE, overridden_by |-> "none"]>>}
    /\ shouldStop = FALSE
    /\ scanTimeout = "none"

NextHistory ==
    \/ \E svc \in {"product", "review"} : StartDirect(svc, "A1")
    \/ ServiceStep(Answers(HistProductObjects, MaxHistResults),
                   Answers(StatReviewObjects, MaxHistResults))

SpecHistory == InitHistory /\ [][NextHistory]_vars

\* the compared columns of product p before and after a step
ColumnsBefore(p) == HistoryColumns(tracked[p], stats[p])
ColumnsAfter(p) == HistoryColumns(tracked'[p], stats'[p])

\* C22: an UPDATE of a product row appends exactly one product_history row,
\* for that product with the new price and review count and the current
\* count of non-overridden violations, when price, review count or
\* best-sellers rank differs between the old and the new row, and none when
\* none of them differs; the rows already there are left as they are
C22_HistoryAppended ==
    [][/\ Len(history') >= Len(history)
       /\ SubSeq(history', 1, Len(history)) = history
       /\ \A p \in DOMAIN products :
            IF ColumnsAfter(p) # ColumnsBefore(p)
            THEN /\ Len(history') = Len(history) + 1
                 /\ history'[Len(history')].product_id = p
                 /\ history'[Len(history')].price = ColumnsAfter(p).price
                 /\ history'[Len(history')].review_count = ColumnsAfter(p).reviewCount
                 /\ history'[Len(history')].violation_count = count_product_violations(p)
            ELSE history' = history]_vars

\* a row of the history of a product that has a violation
C22_Witness ==
    /\ historyVersion # "none"
    /\ \E i \in DOMAIN history : count_product_violations(history[i].product_id) > 0

\* the rows of product_history are never modified or removed, and one is
\* appended only when price or review count differs
HistoryAppendOnly ==
    [][/\ Len(history') \in {Len(history), Len(history) + 1}
       /\ SubSeq(history', 1, Len(history)) = history
       /\ Len(history') > Len(history)
            => \E p \in DOMAIN products : ColumnsAfter(p) # ColumnsBefore(p)]_vars

(***************************************************************************)
(* The scanner on the page of a product with reviews R1 and R2, every scan *)
(* shorter than SCAN_TIMEOUT                                               *)
(***************************************************************************)
InitScan ==
    /\ item = <<>>
    /\ queue = {}
    /\ adding = <<>>
    /\ processing = {}
    /\ pcQ = "sleep"
    /\ cur = 0
    /\ curTask = 0
    /\ timers = {}
    /\ tasks = <<>>
    /\ productVersion = "flat"
    /\ reviewVersion = "summary"
    /\ products = <<[asin |-> "A1", status |-> "active"]>>
    /\ reviews = <<[review_id |-> "R1", product_id |-> 1],
                   [review_id |-> "R2", product_id |-> 1]>>
    /\ stats = <<[reviewCount |-> 2, verifiedPurchases |-> 0]>>
    /\ verified = <<FALSE, FALSE>>
    /\ tracked = [i \in DOMAIN products |-> PlainTracked]
    /\ history = <<>>
    /\ historyVersion = "none"
    /\ scannerVersion \in ScannerVersions
    /\ list \in SeqsUpTo(ListObjects, MaxReviews)
    /\ scanPc = "idle"
    /\ scans = 0
    /\ calls = <<>>
    /\ batchNo = 0
    /\ results = <<>>
    /\ pos = 0
    /\ found = <<>>
    /\ violations = FreshViolations({})
    /\ events = {}
    /\ outcome = NoOutcome
    /\ violationRows = <<>>
    /\ shouldStop = FALSE
    /\ scanTimeout = "none"

NextScan == ScanStep(MaxScans, Responses)

SpecScan == InitScan /\ [][NextScan]_vars

(***************************************************************************)
(* The scanner used for several scans of a list of at most one review, a   *)
(* scan possibly lasting longer than SCAN_TIMEOUT; the classifier answers  *)
(* with a 'violations' object or with HTTP 500                             *)
(***************************************************************************)
RescanResponses == {r \in Responses : r.kind \in {"violations", "non2xx"}}

InitStop ==
    /\ InitScan
    /\ Len(list) <= 1

NextStop == ScanStep(MaxRescans, RescanResponses) \/ TimerStep

SpecStop == InitStop /\ [][NextStop]_vars

(***************************************************************************)
(* The batched scanner on a list of more than batchSize reviews with       *)
(* distinct review ids, some of them without id or without content; the    *)
(* classifier answers with a 'violations' object or with HTTP 500          *)
(***************************************************************************)
\* the review ids of the list, by position
BatchIds == <<"R1", "R2", "R3", "R4", "R5", "R6", "R7", "R8">>

MinBatchList == batchSize + 1

\* the list of n reviews of which those at the positions valid have an id
\* and content; of the others the even ones have no id, the odd ones no content
BatchList(n, valid) ==
    [i \in 1..n |->
        [id |-> IF i \notin valid /\ i % 2 = 0 THEN NoId ELSE BatchIds[i],
         blank |-> i \notin valid /\ i % 2 = 1]]

BatchLists ==
    {BatchList(n, valid) : n \in MinBatchList..MaxBatchList,
                           valid \in {v \in SUBSET (1..MaxBatchList) :
                                        /\ Cardinality(v \cap (1..batchSize)) = 2
                                        /\ Cardinality(v \ (1..batchSize)) \in 1..2}}

BatchResponses ==
    {r \in Responses : \/ r.kind = "non2xx"
                       \/ r.kind = "violations" /\ r.violations = MaxViolations}

InitBatch ==
    /\ item = <<>>
    /\ queue = {}
    /\ adding = <<>>
    /\ processing = {}
    /\ pcQ = "sleep"
    /\ cur = 0
    /\ curTask = 0
    /\ timers = {}
    /\ tasks = <<>>
    /\ productVersion = "flat"
    /\ reviewVersion = "summary"
    /\ products = <<[asin |-> "A1", status |-> "active"]>>
    /\ reviews = [i \in 1..MaxBatchList |-> [review_id |-> BatchIds[i], product_id |-> 1]]
    /\ stats = <<[reviewCount |-> MaxBatchList, verifiedPurchases |-> 0]>>
    /\ verified = [i \in 1..MaxBatchList |-> FALSE]
    /\ tracked = [i \in DOMAIN products |-> PlainTracked]
    /\ history = <<>>
    /\ historyVersion = "none"
    /\ scannerVersion = "batched"
    /\ list \in BatchLists
    /\ scanPc = "idle"
    /\ scans = 0
    /\ calls = <<>>
    /\ batchNo = 0
    /\ results = <<>>
    /\ pos = 0
    /\ found = <<>>
    /\ violations = FreshViolations({})
    /\ events = {}
    /\ outcome = NoOutcome
    /\ violationRows = <<>>
    /\ shouldStop = FALSE
    /\ scanTimeout = "none"

\* the batched version has no Stop button, no timers and no subscription
NextBatch ==
    \/ StartScan(MaxScans) /\ UNCHANGED <<qvars, svars, dbvars>>
    \/ \E c \in DOMAIN calls, resp \in BatchResponses :
          CallAnswer(c, resp) /\ UNCHANGED <<qvars, svars, dbvars>>
    \/ \E c \in DOMAIN calls : CallBackoff(c) /\ UNCHANGED <<qvars, svars, dbvars>>
    \/ AwaitCalls /\ UNCHANGED <<qvars, svars, dbvars>>
    \/ InsertAnswer /\ UNCHANGED <<qvars, svars, dbvars>>
    \/ BatchDelay /\ UNCHANGED <<qvars, svars, dbvars>>
    \/ \E i \in 1..MaxBatchList : Override(BatchIds[i]) /\ UNCHANGED <<qvars, svars, dbvars>>

SpecBatch == InitBatch /\ [][NextBatch]_vars

\* the number of the batch that holds position i of the list
BatchOf(i) == (i - 1) \div batchSize + 1

\* the list is cut in order into NumBatches consecutive batches of 1..batchSize
SplitInOrder ==
    /\ \A b \in 1..NumBatches : Len(Batch(b)) \in 1..batchSize
    /\ \A i \in DOMAIN list :
          /\ BatchOf(i) \in 1..NumBatches
          /\ Batch(BatchOf(i))[i - (BatchOf(i) - 1) * batchSize] = list[i]

\* every call that has sent a request is for a review of the current batch
RequestsOfCurrentBatch ==
    \A c \in DOMAIN calls :
        calls[c].sent > 0 =>
            \E i \in DOMAIN list : list[i].id = calls[c].ids[1] /\ BatchOf(i) = batchNo

\* every call of the batch has returned, its records were put into
\* allViolations and every insert was awaited
BatchFinished ==
    /\ \A c \in DOMAIN calls : calls[c].pc = "done" /\ calls[c].ret \in {"array", "null"}
    /\ \A c \in DOMAIN calls : calls[c].ret = "null" /\ calls[c].sent > 0
                                  => calls[c].attempts = maxAttempts
    /\ results = Returned(calls)
    /\ \A i \in DOMAIN results : results[i].reviewId \in DOMAIN found
    /\ scanPc = "delay" /\ pos = 0

\* C20: in the batched version the list is split in order into consecutive
\* batches of at most 5; requests are only sent for reviews of the current
\* batch, and the next batch is begun only when every call of the current one
\* has returned (with a result or after maxAttempts failures) and the insert
\* of each of its results has been awaited, one after the other
C20_BatchesSequential ==
    [][/\ scannerVersion = "batched" => SplitInOrder' /\ RequestsOfCurrentBatch'
       /\ (scannerVersion = "batched" /\ scanPc # "idle" /\ batchNo' # batchNo)
            => BatchFinished /\ batchNo' = batchNo + 1
       /\ (scannerVersion = "batched" /\ scanPc' = "delay" /\ scanPc # "delay")
            => \/ scanPc = "insert" /\ pos = Len(results)
               \/ scanPc = "calls" /\ results' = <<>>
       /\ (scannerVersion = "batched" /\ scanPc' = "insert" /\ <<scanPc, pos>>' # <<scanPc, pos>>)
            => pos' = pos + 1 /\ scanPc \in {"calls", "insert"}]_vars

\* in the second batch a later request has returned its result while an
\* earlier one is still pending
C20_Witness ==
    /\ scannerVersion = "batched" /\ batchNo = 2 /\ scanPc = "calls"
    /\ \E c1, c2 \in DOMAIN calls :
          /\ c1 < c2
          /\ calls[c1].pc = "fetch"
          /\ calls[c2].pc = "done" /\ calls[c2].ret = "array"

(***************************************************************************)
(* Properties of the scanner                                               *)
(***************************************************************************)
\* the scan has ended
ScanEnded == scans > 0 /\ scanPc = "idle"

\* call c has failed maxAttempts times
Exhausted(c) == calls[c].attempts = maxAttempts

\* C3: when the classifier fails on three consecutive attempts of a call,
\* exactly 3 requests are sent, the wait before attempt n+1 is
\* baseDelay * 2^(n-1) with no wait after the third, and the scan ends with
\* the last error shown to the user as a failure, not with 'Scan Complete'.
C3_RetryThenSurface ==
    \A c \in DOMAIN calls :
        Exhausted(c)
          => /\ calls[c].sent = 3
             /\ calls[c].waits = [n \in 1..2 |-> baseDelay * 2^(n - 1)]
             /\ ScanEnded
                  => /\ outcome.title = "Error"
                     /\ outcome.message = calls[c].lastError

\* a call has sent 3 requests, waited 1000 and 2000 ms and failed, and the
\* scan has ended
C3_Witness ==
    /\ ScanEnded
    /\ \E c \in DOMAIN calls :
          /\ Exhausted(c)
          /\ calls[c].sent = 3
          /\ calls[c].waits = <<1000, 2000>>

\* the ids of the reviews of the list that are excluded from the scan (and
\* are not the id of a valid review of the list as well)
ExcludedIds ==
    ({list[i].id : i \in {j \in DOMAIN list : ~Valid(list[j])}}
        \ {list[i].id : i \in {j \in DOMAIN list : Valid(list[j])}}) \ {NoId}

\* C4: a review without identifier or with missing, empty or blank content
\* is in no request sent to the classifier, and its identifier is neither in
\* the result set of the scan nor in a persisted review_violations row,
\* whatever the classifier answers.
C4_InvalidExcluded ==
    /\ \A c \in DOMAIN calls, j \in 1..MaxReviews :
          j \in DOMAIN calls[c].ids
            => calls[c].ids[j] \notin ExcludedIds \cup {NoId}
    /\ \A id \in ExcludedIds :
          /\ id \notin DOMAIN found
          /\ id \notin DOMAIN violations
          /\ \A i \in DOMAIN results : results[i].reviewId # id
          /\ \A i \in DOMAIN violationRows : violationRows[i].review_id # id

\* a scan of a list with an excluded review has ended and has stored a row
C4_Witness ==
    /\ ScanEnded
    /\ ExcludedIds # {}
    /\ violationRows # <<>>

\* C10: after the operator has overridden the violation of a review, the
\* persisted row of the review has overridden = true and overridden_by =
\* 'Admin', and the active-violation count of the product does not count it.
C10_OverridePersisted ==
    \A i \in DOMAIN violationRows :
        LET id == violationRows[i].review_id
        IN (id \in DOMAIN violations /\ violations[id].overridden)
             => /\ violationRows[i].overridden
                /\ violationRows[i].overridden_by = "Admin"
                /\ i \notin ActiveRows(violationRows[i].product_id)

\* the violation of R1 is stored and the operator has overridden it
C10_Witness ==
    /\ "R1" \in DOMAIN violations
    /\ violations["R1"].overridden
    /\ violations["R1"].overriddenBy = "Admin"
    /\ \E i \in DOMAIN violationRows : violationRows[i].review_id = "R1"
    /\ count_product_violations(1) >= 1

\* C11: once the stop flag is set while a scan is running, the scan submits
\* nothing more to the classifier (no request of a later batch, no further
\* request at all) and the outcome reported when it ends is 'Scan Stopped',
\* not 'Scan Complete' or 'Error'.
C11_StopHonoured ==
    [][(shouldStop /\ scanPc # "idle")
         => /\ \A c \in DOMAIN calls' :
                 /\ c \in DOMAIN calls
                 /\ calls'[c].ids = calls[c].ids
                 /\ calls'[c].sent = calls[c].sent
            /\ scanPc' = "idle" => outcome'.title = "Scan Stopped"]_vars

\* the stop flag is set while the scan has not ended and a request is still
\* to be sent
C11_Witness ==
    /\ shouldStop
    /\ scanPc = "calls"
    /\ \E c \in DOMAIN calls : calls[c].pc = "backoff"

\* C14: single-shot scanner: a request still pending when the 15-minute
\* limit aborts it is not retried as an ordinary failure (no backoff, no
\* further request of the aborted call), and a scan that ends with an aborted
\* call reports a timeout, not the outcome of the other failures
C14_AbortIsTimeout ==
    [][\A c \in DOMAIN calls :
          (c \in DOMAIN calls' /\ scans' = scans /\ calls'[c].aborted)
          => /\ calls'[c].pc # "backoff"
             /\ calls'[c].sent = calls[c].sent
             /\ (scanPc # "idle" /\ scanPc' = "idle" /\ calls[c].got = "abort")
                   => outcome'.title = "Scan Timeout"]_vars

\* the request of a call was pending when the limit aborted it
C14_Witness ==
    /\ scannerVersion = "single"
    /\ scanTimeout = "fired"
    /\ \E c \in DOMAIN calls :
          /\ calls[c].aborted /\ calls[c].got = "abort" /\ calls[c].lastError = "AbortError"
          /\ calls[c].sent = 1 /\ calls[c].attempts = 1

\* C16: a review_violations row is written only with at least one
\* violation, and the violationsFound of a completed scan counts only the
\* reviews whose record has at least one violation
C16_OnlyFindingsStored ==
    /\ \A i \in DOMAIN violationRows : violationRows[i].violations > 0
    /\ (scanPc = "idle" /\ outcome.title = "Scan Complete")
          => violationsFound = Cardinality({id \in DOMAIN found : found[id] > 0})

\* a scan has completed in which the classifier reported no violation for a
\* review
C16_Witness ==
    /\ scanPc = "idle" /\ outcome.title = "Scan Complete"
    /\ \E id \in DOMAIN found : found[id] = 0

\* the reviewIds of a sequence of result records
IdsOf(items) == [i \in DOMAIN items |-> items[i].reviewId]

\* the three response shapes the normalisation is described to accept
Shapes == {"violations", "results", "map"}

\* C13: single-shot scanner: when the first response to a request that
\* carries at least one review has one of the three shapes (an object with
\* violations, an object with a results array, a map keyed by review id), the
\* call returns records without a retry; the record of a violations object
\* for a request of one review, and the records of a map, carry the ids of
\* the reviews of the request
C13_ShapesAccepted ==
    [][\A c \in DOMAIN calls :
          (/\ scannerVersion = "single"
           /\ c \in DOMAIN calls'
           /\ calls[c].pc = "fetch" /\ calls[c].attempts = 0 /\ calls[c].ids # <<>>
           /\ calls'[c].pc # "fetch"
           /\ calls'[c].got \in Shapes)
          => /\ calls'[c].ret = "array"
             /\ calls'[c].attempts = 0
             /\ calls'[c].sent = 1
             /\ (calls'[c].got = "violations" /\ Len(calls[c].ids) = 1)
                   => IdsOf(calls'[c].items) = calls[c].ids
             /\ calls'[c].got = "map" => IdsOf(calls'[c].items) = calls[c].ids]_vars

\* a map keyed by review id was the first answer to a request with a review
C13_Witness ==
    /\ scannerVersion = "single"
    /\ \E c \in DOMAIN calls :
          /\ calls[c].ids # <<>> /\ calls[c].got = "map" /\ calls[c].sent = 1
          /\ calls[c].attempts = 1 /\ calls[c].pc = "backoff"

(***************************************************************************)
(* Properties of result ingestion                                          *)
(***************************************************************************)
RECURSIVE IngestProducts(_, _)
\* the loop of ProductScraperService.processResults over a result set, every
\* upsert succeeding
IngestProducts(rows, res) ==
    IF res = <<>> THEN rows
    ELSE IngestProducts(
             IF Head(res).asin = NoId THEN rows
             ELSE UpsertProduct(rows, Head(res).asin, "active"),
             Tail(res))

RECURSIVE IngestReviewRows(_, _, _)
\* the loop of the rows version of ReviewScraperService.processResults
IngestReviewRows(rows, res, pid) ==
    IF res = <<>> THEN rows
    ELSE IngestReviewRows(
             IF Head(res).reviewId = NoId THEN rows
             ELSE UpsertReview(rows, Head(res).reviewId, pid),
             Tail(res), pid)

\* the batch version of ReviewScraperService.processResults
IngestReviewBatch(rows, res, pid) == UpsertReviewBatch(rows, res, pid).rows

\* C5: ingesting the same result set twice for the same ASIN leaves the same
\* product rows and review rows as ingesting it once, and no ASIN and no
\* review_id occurs in more than one row of the store.
C5_IngestIdempotent ==
    /\ \A a \in Asins : Cardinality(RowsWithAsin(products, a)) <= 1
    /\ ReviewIdUnique(reviews)
    /\ \A rs \in SeqsUpTo(ProductObjects, MaxResults) :
          IngestProducts(IngestProducts(products, rs), rs) = IngestProducts(products, rs)
    /\ \A rs \in SeqsUpTo(ReviewObjects, MaxResults), pid \in DOMAIN products :
          /\ IngestReviewRows(IngestReviewRows(reviews, rs, pid), rs, pid)
                = IngestReviewRows(reviews, rs, pid)
          /\ IngestReviewBatch(IngestReviewBatch(reviews, rs, pid), rs, pid)
                = IngestReviewBatch(reviews, rs, pid)

\* two product tasks have each upserted the same product of the same result
\* set, and the store holds one row for its ASIN
C5_Witness ==
    \E t1, t2 \in TaskIds :
        /\ t1 # t2
        /\ tasks[t1].svc = "product" /\ tasks[t2].svc = "product"
        /\ tasks[t1].pc = "chain" /\ tasks[t2].pc = "chain"
        /\ tasks[t1].res = tasks[t2].res /\ tasks[t1].k = tasks[t2].k
        /\ Cardinality(RowsWithAsin(products, tasks[t1].res[tasks[t1].k].asin)) = 1

\* C7: 'completed' and 'failed' are terminal: once a task has one of these
\* statuses, no later step changes its status.
C7_TerminalStatus ==
    [][\A t \in TaskIds :
         tasks[t].status \in {"completed", "failed"}
            => tasks'[t].status = tasks[t].status]_vars

\* a task can be observed as 'completed' while its results are being ingested
C7_Witness ==
    \E t \in TaskIds : tasks[t].status = "completed" /\ tasks[t].pc = "upsert"

\* the upsert of the only product of the result set of product task t has
\* just succeeded, and that product has the ASIN the task was started for
UpsertedOnlyProduct(t) ==
    /\ tasks[t].svc = "product"
    /\ tasks[t].pc = "upsert"
    /\ Len(tasks[t].res) = 1
    /\ tasks[t].res[1].asin = tasks[t].asin
    /\ tasks'[t] # tasks[t]
    /\ tasks'[t].status # "failed"

\* a task has just been stored by startScraping
TaskStored == Len(tasks') > Len(tasks)

\* C9 as stated: startScraping stores a 'pending' task; when the provider
\* has reported SUCCEEDED with one product object of that ASIN, ingestion
\* upserts a product row with status 'active' and starts a review scrape for
\* the ASIN.
C9_AsStated ==
    [][/\ TaskStored => tasks'[Len(tasks')].status = "pending"
       /\ \A t \in TaskIds :
            UpsertedOnlyProduct(t)
              => /\ \E i \in DOMAIN products' :
                      products'[i] = [asin |-> tasks[t].asin, status |-> "active"]
                 /\ tasks'[t].pc = "chain"]_vars

\* C9, amended: the row is upserted with status 'active' by both versions of
\* ProductScraperService; the chained version then calls
\* reviewScraperService.startScraping for the ASIN, and the task that call
\* stores is a 'pending' review task for the ASIN; product-scraper.ts ends
\* ingestion without starting a task.
C9_Amended ==
    [][/\ TaskStored => tasks'[Len(tasks')].status = "pending"
       /\ \A t \in TaskIds :
            /\ UpsertedOnlyProduct(t)
                 => /\ \E i \in DOMAIN products' :
                         products'[i] = [asin |-> tasks[t].asin, status |-> "active"]
                    /\ productVersion = "chained" => tasks'[t].pc = "chain"
                    /\ productVersion = "flat"
                         => tasks'[t].pc = "done" /\ ~TaskStored
            /\ (tasks[t].pc = "chain" /\ tasks'[t].pc # "chain" /\ TaskStored)
                 => /\ tasks'[Len(tasks')].svc = "review"
                    /\ tasks'[Len(tasks')].asin = tasks[t].res[tasks[t].k].asin]_vars

\* the chained version has ingested a product and the review task it started
\* for the ASIN is pending
C9_Witness ==
    \E t, r \in TaskIds :
        /\ tasks[t].svc = "product" /\ tasks[t].pc = "done" /\ tasks[t].completedAt
        /\ tasks[r].svc = "review" /\ tasks[r].status = "pending"
        /\ tasks[r].asin = tasks[t].asin
        /\ \E i \in DOMAIN products :
              products[i] = [asin |-> tasks[t].asin, status |-> "active"]

\* C23: a task whose fetched result set is not an array or is an empty
\* array ends in status 'failed' with an error message, and its ingestion
\* writes nothing to products or reviews
C23_BadResultsFail ==
    [][\A t \in DOMAIN tasks :
          tasks'[t].fetched \in {"notArray", "empty"} =>
             /\ tasks'[t] # tasks[t] =>
                   products' = products /\ reviews' = reviews /\ stats' = stats
             /\ tasks'[t].pc = "done" =>
                   tasks'[t].status = "failed" /\ tasks'[t].error # "none"]_vars

\* the ingestion of an empty result set, and that of one that is no array,
\* have ended
C23_Witness ==
    \E t, u \in DOMAIN tasks :
        /\ tasks[t].fetched = "empty" /\ tasks[t].pc = "done"
        /\ tasks[u].fetched = "notArray" /\ tasks[u].pc = "done"

\* what holds in every version: a result set that is no array fails the task
\* and writes nothing
NotArrayFails ==
    [][\A t \in DOMAIN tasks :
          tasks'[t].fetched = "notArray" =>
             /\ tasks'[t] # tasks[t] =>
                   products' = products /\ reviews' = reviews /\ stats' = stats
             /\ tasks'[t].pc = "done" /\ tasks'[t].status = "failed"
             /\ tasks'[t].error # "none"]_vars

\* the positions of processResults
IngestPcs == {"product", "results", "existing", "upsert", "chain", "update", "status"}

\* C24: a poll maps SUCCEEDED to 'completed', FAILED to 'failed' and every
\* other status to 'processing'; the next poll is scheduled exactly when the
\* mapped status is 'processing', so a task that is 'completed' or 'failed'
\* is not polled again; processResults is entered at most once per task, from
\* a poll that returned SUCCEEDED; a poll that throws marks the task 'failed'
\* with a message and schedules nothing
C24_MonitorTask ==
    [][/\ MapStatus("SUCCEEDED") = "completed" /\ MapStatus("FAILED") = "failed"
       /\ \A st \in ProviderStatuses \ {"SUCCEEDED", "FAILED"} : MapStatus(st) = "processing"
       /\ \A t \in DOMAIN tasks :
            \* a poll answers
            /\ (tasks[t].pc = "poll" /\ tasks'[t] # tasks[t]) =>
                  /\ tasks'[t].status \in {"completed", "failed", "processing"}
                  /\ tasks'[t].pc = "wait" <=> tasks'[t].status = "processing"
                  /\ tasks'[t].pc \in IngestPcs <=> tasks'[t].status = "completed"
                  /\ tasks'[t].status = "completed" <=> tasks'[t].progress = ProgressOf("SUCCEEDED")
                  /\ tasks'[t].status = "failed" => tasks'[t].pc = "done"
                  /\ tasks'[t].error # tasks[t].error =>
                        tasks'[t].status = "failed" /\ tasks'[t].error # "none"
            \* the next poll
            /\ (tasks'[t].pc = "poll" /\ tasks[t].pc # "poll") =>
                  tasks[t].pc = "wait" /\ tasks[t].status = "processing"
            /\ tasks[t].status \in {"completed", "failed"} =>
                  tasks'[t].pc \notin {"poll", "wait"}
            \* processResults
            /\ (tasks'[t].pc \in IngestPcs /\ tasks[t].pc \notin IngestPcs) =>
                  /\ tasks[t].pc = "poll" /\ tasks'[t].pc = EnterProcessResults(t)
                  /\ tasks[t].fetched = "none" /\ ~tasks[t].completedAt]_vars

\* a task has ingested the results fetched after its poll returned SUCCEEDED,
\* and the poll of another task has thrown
C24_Witness ==
    \E t, u \in DOMAIN tasks :
        /\ tasks[t].pc = "done" /\ tasks[t].fetched = "items" /\ tasks[t].completedAt
        /\ tasks[u].pc = "done" /\ tasks[u].error = "Failed to get task status"

\* C15: product ingestion: when the upsert of a product answers with an
\* error, the step writes nothing, the task ends 'failed' with the message of
\* that error in its error field and takes no further step (no later product
\* is written), and no row of products is removed or renamed
C15_UpsertFailureStops ==
    [][/\ \A t \in TaskIds :
            /\ (tasks[t].svc = "product" /\ tasks[t].pc = "upsert"
                 /\ tasks'[t].status = "failed")
                 => /\ products' = products
                    /\ tasks'[t].pc = "done"
                    /\ tasks'[t].error = "store error"
            /\ (tasks[t].pc = "done" /\ tasks[t].status = "failed") => tasks'[t] = tasks[t]
       /\ \A i \in DOMAIN products :
            i \in DOMAIN products' /\ products'[i].asin = products[i].asin]_vars

\* the upsert of the second product of a result set failed after the first
\* product was written
C15_Witness ==
    \E t \in TaskIds :
        /\ tasks[t].svc = "product" /\ tasks[t].status = "failed" /\ tasks[t].pc = "done"
        /\ tasks[t].error \in {"store error", "Unknown error"}
        /\ Len(tasks) = 1
        /\ products = <<[asin |-> "A2", status |-> "active"]>>

\* C17: for every product, rating_data.reviewCount is the number of rows of
\* reviews that reference it, and review_summary.verifiedPurchases the number
\* of those rows with verified_purchase = true
C17_AggregatesDerived ==
    \A p \in DOMAIN products : stats[p] = CountReviews(reviews, verified, p)

\* a review was stored for a product whose aggregates the trigger has set,
\* and a product ingestion has written a product row
C17_Witness ==
    /\ \E j \in DOMAIN reviews :
          verified[j] /\ stats[reviews[j].product_id] = [reviewCount |-> 1, verifiedPurchases |-> 1]
    /\ \E t \in TaskIds :
          tasks[t].svc = "product" /\ tasks[t].pc = "done" /\ tasks[t].completedAt

(***************************************************************************)
(* Properties of the queue                                                 *)
(***************************************************************************)
StatusProcessing == {i \in ItemIds : item[i].status = "processing"}

C2_RetryLimit ==
    [][\A i \in ItemIds :
         /\ item'[i].attempts <= maxRetries
         /\ (item[i].status # "processing" /\ item'[i].status = "processing")
              => (item[i].status = "queued" /\ item[i].attempts < maxRetries)
         /\ (item[i].status = "failed" /\ item[i].attempts >= maxRetries)
              => item'[i].status = "failed"
         /\ (item[i].status = "failed" /\ item'[i].status # "failed")
              => (item'[i].status = "queued" /\ RetryFailed)]_vars

\* an item of the queue has failed maxRetries times; the scheduler is about
\* to look for the next item
C2_Witness ==
    /\ pcQ = "sleep"
    /\ \E i \in queue : item[i].status = "failed" /\ item[i].attempts = maxRetries

\* C6: the status of an item changes only queued -> processing, processing ->
\* completed, processing -> failed and failed -> queued; the last happens only
\* in retryFailed, only with attempts < maxRetries, and leaves attempts as it
\* is; a completed item never changes status.
C6_Transitions ==
    [][\A i \in ItemIds :
         \/ item'[i].status = item[i].status
         \/ item[i].status = "queued" /\ item'[i].status = "processing"
         \/ item[i].status = "processing" /\ item'[i].status \in {"completed", "failed"}
         \/ /\ item[i].status = "failed" /\ item'[i].status = "queued"
            /\ RetryFailed
            /\ item[i].attempts < maxRetries
            /\ item'[i].attempts = item[i].attempts]_vars

\* one item has been re-queued by retryFailed after a failed attempt and
\* another one is completed
C6_Witness ==
    /\ \E i \in queue : item[i].status = "queued" /\ item[i].attempts >= 1
    /\ \E i \in ItemIds : item[i].status = "completed"

\* C18: the item the scheduler promotes is a queued item with attempts <
\* maxRetries, no queued item of the queue with attempts < maxRetries has a
\* higher priority, and none of the same priority was queued earlier
C18_PromotesBest ==
    [][(pcQ = "sleep" /\ pcQ' = "refresh")
         => /\ cur' \in queue
            /\ item[cur'].status = "queued" /\ item[cur'].attempts < maxRetries
            /\ item'[cur'].status = "processing"
            /\ \A j \in queue :
                  (item[j].status = "queued" /\ item[j].attempts < maxRetries)
                    => \/ item[cur'].priority > item[j].priority
                       \/ /\ item[cur'].priority = item[j].priority
                          /\ item[cur'].queuedAt <= item[j].queuedAt]_vars

\* an item was promoted past a queued item of lower priority that was queued
\* earlier
C18_Witness ==
    /\ pcQ = "refresh"
    /\ \E j \in queue :
          /\ item[j].status = "queued" /\ item[j].attempts < maxRetries
          /\ item[j].priority < item[cur].priority
          /\ item[j].queuedAt < item[cur].queuedAt

\* C12: when the submission to the provider succeeds, startScraping returns
\* the id of a task it has just stored with status 'pending', progress 0 and
\* the submitted target, whose monitoring has begun (monitorTask awaits the
\* first status poll), and no other task is touched; when the submission
\* throws, the task map is unchanged (so nothing is monitored) and the
\* rejection reaches the caller, processItem, whose catch block records it.
C12_StartScraping ==
    [][/\ (pcQ = "start" /\ pcQ' = "poll")
            => /\ curTask' \notin DOMAIN tasks
               /\ curTask' \in DOMAIN tasks'
               /\ DOMAIN tasks' = DOMAIN tasks \cup {curTask'}
               /\ tasks'[curTask'].svc = item[cur].kind
               /\ tasks'[curTask'].asin = item[cur].asin
               /\ tasks'[curTask'].status = "pending"
               /\ tasks'[curTask'].progress = 0
               /\ tasks'[curTask'].pc = "poll"
               /\ \A t \in DOMAIN tasks : tasks'[t] = tasks[t]
       /\ (pcQ = "start" /\ pcQ' = "reset")
            => /\ tasks' = tasks
               /\ item'[cur].status = "failed"
               /\ item'[cur].error]_vars

\* startScraping has returned the id of a pending task to processItem, after
\* an earlier call of it for another item was rejected
C12_Witness ==
    /\ pcQ = "poll"
    /\ curTask \in DOMAIN tasks
    /\ tasks[curTask].status = "pending"
    /\ tasks[curTask].progress = 0
    /\ Len(tasks) = 1
    /\ \E i \in queue : i # cur /\ item[i].status = "failed" /\ item[i].error

\* the scheduling of the code: timers fire and the answers of the store and
\* of the provider arrive; the polling loop is not answered with errors for
\* ever; nothing obliges the user to call the queue
FairSpecQueue ==
    /\ SpecQueue
    /\ WF_vars(Tick /\ UNCHANGED scanvars)
    /\ WF_vars(\E n \in DOMAIN adding : MarkQueued(n) /\ UNCHANGED scanvars)
    /\ WF_vars((MarkRefreshing \/ StartScraping \/ PollStatus \/ PollTimer \/ ResetStatus)
                 /\ UNCHANGED scanvars)
    /\ SF_vars(PollAnswer(TRUE) /\ UNCHANGED scanvars)
    /\ WF_vars(ServiceStep(QueueProductAnswers, QueueReviewAnswers))

\* the scrape task processItem started for item i has ended in failure
TaskFailedFor(i) ==
    /\ i \in ItemIds
    /\ cur = i
    /\ curTask # 0
    /\ item[i].status = "processing"
    /\ tasks[curTask].status = "failed"
    /\ tasks[curTask].pc = "done"

\* C8: if the scrape task started for a processing queue item ends in
\* failure, the item eventually becomes 'failed' with its error set.
C8_TaskFailureFailsItem ==
    \A i \in 1..MaxItems :
        TaskFailedFor(i)
            ~> (i \in ItemIds /\ item[i].status = "failed" /\ item[i].error)

\* the task of the item being processed has failed
C8_Witness == \E i \in ItemIds : TaskFailedFor(i)

\* one item is 'processing', fewer than maxConcurrent items are running and
\* item j of the queue is eligible
DispatchDue(j) ==
    /\ j \in ItemIds /\ j \in queue /\ Eligible(j)
    /\ Cardinality(processing) < maxConcurrent
    /\ \E i \in ItemIds : i # j /\ item[i].status = "processing"

\* the items that are 'processing'
Running == {i \in ItemIds : item[i].status = "processing"}

\* C19: when one item is 'processing', fewer than maxConcurrent items are
\* running and another eligible item is queued, a state with two items
\* 'processing' at once follows (the scheduler does not wait for the running
\* item)
C19_ConcurrentDispatch ==
    \A j \in 1..MaxItems : DispatchDue(j) ~> (Cardinality(Running) >= 2)

\* an item is being processed while another eligible item waits in the queue
C19_Witness == \E j \in ItemIds : DispatchDue(j) /\ pcQ = "poll"

\* processQueue awaits processItem: at most one item is 'processing', and it
\* is the item processItem was called with
OneAtATime == Running \subseteq {cur} /\ processing \subseteq {cur}

(***************************************************************************)
(* The queue alone with one priority, its timers firing                    *)
(***************************************************************************)
NextLifecycle == QueueStep(QueueAsins, QueuePriorities, MaxItems)

FairSpecLifecycle ==
    /\ InitSched
    /\ [][NextLifecycle]_vars
    /\ WF_vars(Tick /\ UNCHANGED scanvars)
    /\ WF_vars((MarkRefreshing \/ StartScraping \/ PollStatus \/ PollTimer \/ ResetStatus)
                 /\ UNCHANGED scanvars)
    /\ WF_vars(\E i \in ItemIds : RemoveCompleted(i) /\ UNCHANGED scanvars)

\* the items a step removes from the queue
Removed == queue \ queue'

ItemsWithStatus(st) == {i \in queue : item[i].status = st}

\* a step that removes items removes one completed item whose timer fired,
\* exactly the completed items or exactly the failed items, and changes no
\* item; a failed item stays as it is unless retryFailed re-queues it
LifecycleStep ==
    /\ Removed # {} =>
          /\ item' = item
          /\ \/ \E i \in timers : Removed = {i} /\ item[i].status = "completed"
             \/ Removed = ItemsWithStatus("completed")
             \/ Removed = ItemsWithStatus("failed")
    /\ \A i \in ItemsWithStatus("failed") :
          /\ i \in Removed => Removed = ItemsWithStatus("failed")
          /\ item'[i] # item[i] => i \in queue' /\ Retryable(i) /\ item'[i] = Requeue(i)

\* C21: a completed item is eventually removed from the queue; a failed item
\* stays in the queue, failed, until clearFailed removes it or retryFailed
\* re-queues it; clearCompleted removes exactly the completed items and
\* clearFailed exactly the failed ones, and no item is changed by a removal
C21_Lifecycle ==
    /\ [][LifecycleStep]_vars
    /\ \A i \in 1..MaxItems :
          (i \in queue /\ item[i].status = "completed") ~> (i \notin queue)

\* a completed item has left the queue while a failed one is still in it
C21_Witness ==
    \E i, j \in ItemIds :
        /\ item[i].status = "completed" /\ i \notin queue
        /\ item[j].status = "failed" /\ j \in queue

(***************************************************************************)
(* The queue and the services of src/src/services (with review-scraper.ts  *)
(* or its batch version) in an environment without failures: every store   *)
(* call succeeds, no call of the provider throws, a run is never FAILED    *)
(* and its result set is an array with one object that has its id          *)
(***************************************************************************)
InitIdeal ==
    /\ InitQueue
    /\ productVersion = "flat" /\ reviewVersion \in {"summary", "batch"}

NextIdeal ==
    \/ \E a \in QueueAsins, p \in QueuePriorities :
          AddToQueue(a, p, MaxItems) /\ UNCHANGED scanvars
    \/ \E n \in DOMAIN adding :
          /\ MarkQueued(n)
          /\ products' = UpdateStatusByAsin(products, adding[n], "queued")
          /\ UNCHANGED scanvars
    \/ Tick /\ UNCHANGED scanvars
    \/ /\ MarkRefreshing
       /\ products' = UpdateStatusByAsin(products, item[cur].asin, "refreshing")
       /\ UNCHANGED scanvars
    \/ StartScraping /\ pcQ' = "poll" /\ UNCHANGED scanvars
    \/ PollAnswer(TRUE) /\ UNCHANGED scanvars
    \/ PollTimer /\ UNCHANGED scanvars
    \/ \E i \in ItemIds : RemoveCompleted(i) /\ UNCHANGED scanvars
    \/ ClearCompleted /\ UNCHANGED scanvars
    \/ \E t \in TaskIds :
          MonitorPoll(t) /\ tasks'[t].status # "failed" /\ UNCHANGED <<dbvars, qvars, scanvars>>
    \/ \E t \in TaskIds : MonitorTimer(t) /\ UNCHANGED <<dbvars, qvars, scanvars>>
    \/ \E t \in TaskIds :
          /\ ProductResults(t, {[kind |-> "array", items |-> <<[asin |-> tasks[t].asin]>>]})
          /\ UNCHANGED <<qvars, scanvars>>
    \/ \E t \in TaskIds :
          ProductUpsert(t) /\ tasks'[t].status # "failed" /\ UNCHANGED <<qvars, scanvars>>
    \/ \E t \in TaskIds :
          ReviewProduct(t) /\ tasks'[t].status # "failed" /\ UNCHANGED <<qvars, scanvars>>
    \/ \E t \in TaskIds :
          /\ ReviewResults(t, {[kind |-> "array", items |-> <<[reviewId |-> "R1"]>>]})
          /\ UNCHANGED <<qvars, scanvars>>
    \/ \E t \in TaskIds :
          ReviewUpdate(t) /\ tasks'[t].status # "failed" /\ UNCHANGED <<qvars, scanvars>>
    \/ \E t \in TaskIds :
          ReviewUpsert(t) /\ tasks'[t].status # "failed" /\ UNCHANGED <<qvars, scanvars>>

\* timers fire and answers arrive; a run does not stay unfinished for ever
FairSpecIdeal ==
    /\ InitIdeal
    /\ [][NextIdeal]_vars
    /\ WF_vars(NextIdeal)
    /\ WF_vars((Tick \/ MarkRefreshing \/ StartScraping \/ PollAnswer(TRUE) \/ PollTimer)
                 /\ UNCHANGED scanvars)
    /\ \A t \in 1..MaxTasks :
          /\ WF_vars(t \in TaskIds /\ NextIdeal /\ tasks'[t] # tasks[t])
          /\ SF_vars(/\ t \in TaskIds /\ MonitorPoll(t) /\ tasks'[t].status = "completed"
                     /\ UNCHANGED <<dbvars, qvars, scanvars>>)

\* C25: without failures, every queue item that enters 'processing'
\* eventually reaches 'completed', and every eligible queued item is
\* eventually promoted
C25_ItemsComplete ==
    \A i \in 1..MaxItems :
        /\ (i \in ItemIds /\ item[i].status = "processing")
              ~> (i \in ItemIds /\ item[i].status = "completed")
        /\ (i \in ItemIds /\ i \in queue /\ Eligible(i))
              ~> (i \in ItemIds /\ item[i].status # "queued")

\* the task of a review item has ingested its results and is 'completed'
\* while the item is still 'processing'
C25_Witness ==
    /\ cur \in ItemIds /\ item[cur].kind = "review" /\ item[cur].status = "processing"
    /\ curTask \in TaskIds
    /\ tasks[curTask].status = "completed" /\ tasks[curTask].pc = "done"

NextDirect ==
    \/ NextIdeal
    \/ StartDirect("product", "A1")

SpecDirect == InitIdeal /\ [][NextDirect]_vars

\* the task processItem started for the item it is processing has ingested
\* its results
CurTaskIngested ==
    /\ curTask \in TaskIds
    /\ tasks[curTask].pc = "done"
    /\ tasks[curTask].completedAt

\* C27: an item is set to 'completed' only when the scrape task that
\* processItem started for it has finished ingesting its results
C27_CompletedAfterIngestion ==
    [][\A i \in ItemIds :
          (item'[i].status = "completed" /\ item[i].status # "completed")
             => i = cur /\ CurTaskIngested]_vars

\* an item is completed and released while the task started for it is still
\* being polled at the provider
C27_Witness ==
    \E i \in ItemIds, t \in TaskIds :
        /\ item[i].status = "completed" /\ i # cur
        /\ tasks[t].svc = item[i].kind /\ tasks[t].pc \in {"poll", "wait"}

\* C28: a scan of the single-shot scanner started after a stop was requested
\* during the previous scan is not aborted by that request: it submits its
\* reviews to the classifier and is not reported as 'Scan Stopped'
C28_StopFlagReset ==
    [][(scannerVersion = "single" /\ scans' = scans + 1)
         => /\ scanPc' = "calls"
            /\ Len(calls') = 1 /\ calls'[1].sent = 1
            /\ outcome'.title # "Scan Stopped"]_vars

\* the second scan was started after the Stop button was pressed during the
\* first one, and has ended as 'Scan Stopped' without a request
C28_Witness ==
    /\ scannerVersion = "single"
    /\ scans = 2
    /\ scanPc = "idle"
    /\ calls = <<>>
    /\ outcome.title = "Scan Stopped"
    /\ ~shouldStop

\* C29: when a scan ends before SCAN_TIMEOUT, its overall timer is cancelled:
\* the timer is not left armed by the step that ends the scan, and 'Scan
\* Timeout' is not shown while no scan is running
C29_TimerCancelled ==
    [][/\ (scanPc # "idle" /\ scanPc' = "idle" /\ scanTimeout = "armed")
             => scanTimeout' = "none"
       /\ (scanPc = "idle" /\ scanPc' = "idle" /\ scanTimeout # "fired")
             => scanTimeout' # "fired"]_vars

\* a scan has ended as 'Scan Complete' before SCAN_TIMEOUT and the timer it
\* set is still armed
C29_Witness ==
    /\ scannerVersion = "single"
    /\ scanPc = "idle"
    /\ outcome.title = "Scan Complete"
    /\ scanTimeout = "armed"

(***************************************************************************)
(* The scanner on the page of product A1, whose review R1 is stored, while *)
(* the review scraper (rows or batch version) is called directly for A1    *)
(* and A2 and the provider returns R1 for either of them                   *)
(***************************************************************************)
InitViolations ==
    /\ item = <<>>
    /\ queue = {}
    /\ adding = <<>>
    /\ processing = {}
    /\ pcQ = "sleep"
    /\ cur = 0
    /\ curTask = 0
    /\ timers = {}
    /\ tasks = <<>>
    /\ productVersion = "flat"
    /\ reviewVersion \in {"rows", "batch"}
    /\ products = <<[asin |-> "A1", status |-> "active"], [asin |-> "A2", status |-> "active"]>>
    /\ reviews = <<[review_id |-> "R1", product_id |-> 1]>>
    /\ stats = <<[reviewCount |-> 1, verifiedPurchases |-> 0], NoStats>>
    /\ verified = <<FALSE>>
    /\ tracked = [i \in DOMAIN products |-> PlainTracked]
    /\ history = <<>>
    /\ historyVersion = "none"
    /\ scannerVersion \in ScannerVersions
    /\ list = <<[id |-> "R1", blank |-> FALSE]>>
    /\ scanPc = "idle"
    /\ scans = 0
    /\ calls = <<>>
    /\ batchNo = 0
    /\ results = <<>>
    /\ pos = 0
    /\ found = <<>>
    /\ violations = FreshViolations({})
    /\ events = {}
    /\ outcome = NoOutcome
    /\ violationRows = <<>>
    /\ shouldStop = FALSE
    /\ scanTimeout = "none"

NextViolations ==
    \/ ScanStep(MaxScans, RescanResponses)
    \/ \E a \in Asins : StartDirect("review", a)
    \/ \E t \in TaskIds : MonitorPoll(t) /\ UNCHANGED <<dbvars, qvars, scanvars>>
    \/ \E t \in TaskIds : MonitorTimer(t) /\ UNCHANGED <<dbvars, qvars, scanvars>>
    \/ \E t \in TaskIds : ReviewProduct(t) /\ UNCHANGED <<qvars, scanvars>>
    \/ \E t \in TaskIds :
          /\ ReviewResults(t, {[kind |-> "array",
                                items |-> <<[reviewId |-> "R1", isVerified |-> FALSE]>>]})
          /\ UNCHANGED <<qvars, scanvars>>
    \/ \E t \in TaskIds : ReviewUpsert(t) /\ UNCHANGED <<qvars, scanvars>>
    \/ \E t \in TaskIds : ReviewStatus(t) /\ UNCHANGED <<qvars, scanvars>>

SpecViolations == InitViolations /\ [][NextViolations]_vars

\* C30: every row of review_violations references a stored review and has
\* the product_id of that review
C30_RowsFollowReviews ==
    \A i \in DOMAIN violationRows :
        \E j \in DOMAIN reviews :
            /\ reviews[j].review_id = violationRows[i].review_id
            /\ reviews[j].product_id = violationRows[i].product_id

\* a violation of R1 is stored for product A1 and the upsert of a scrape of
\* A2 has given review R1 to product A2
C30_Witness ==
    /\ \E i \in DOMAIN violationRows :
          violationRows[i].review_id = "R1" /\ violationRows[i].product_id = 1
    /\ reviews = <<[review_id |-> "R1", product_id |-> 2]>>

====
